---- MODULE Spec2Model ----
(***************************************************************************)
(* Model of the merge / normalisation scripts of LinguisticDataCore-LV0:   *)
(*   scripts/ingest/merge_arabic_classical_lexemes.py  (variant classical) *)
(*   scripts/ingest/merge_quranic_arabic_lexemes.py    (variant quranic)   *)
(*   scripts/ingest/build_arabic_binary_root_lexicon.py (variant binary)   *)
(*   scripts/ingest/processed_schema.py                (ensure_min_schema) *)
(*   scripts/ingest/convert_stardict.py                (convert_package)   *)
(*   scripts/ingest/merge_english_ipa_sources.py       (merge)             *)
(*   scripts/ingest/run_ingest_all.py, src/linguistic_data_core/ingest/    *)
(*     runner.py                                       (the step runners)  *)
(*   src/ingest/adapters/quran_lemmas.py, wiktionary_filtered.py           *)
(*                                                                         *)
(* Text is a sequence of characters (one-character strings; characters     *)
(* outside ASCII are written by their code point, "U+0623").  A JSON value *)
(* is a tagged pair [t, v]; a JSON object (a Python dict) is a function    *)
(* from its keys to values, so "k in rec" is  k \in DOMAIN rec.            *)
(***************************************************************************)
EXTENDS Integers, Sequences, FiniteSets, TLC

(***************************************************************************)
(* Characters and text                                                     *)
(***************************************************************************)

\* The characters of the model, in code-point order (Python compares text
\* by code point).
Alphabet ==
  << " ", "'", "-", ".", "/", "0", "2", ":", "<", ">", "N", "V", "[", "]",
     "_", "a", "b", "c", "d", "e", "f", "g", "h", "i", "k", "l", "m", "n", "o", "p",
     "q", "r", "s", "t", "u", "v", "w", "x", "y", "|",
     "U+02C8", "U+02CC", "U+0623", "U+0627", "U+064E" >>

Ord(c) == CHOOSE i \in 1..Len(Alphabet) : Alphabet[i] = c

\* str.strip() and the regex class \s: the whitespace of the model.
WhiteSpace == {" "}

RECURSIVE LStrip(_)
LStrip(s) == IF s # <<>> /\ Head(s) \in WhiteSpace THEN LStrip(Tail(s)) ELSE s

RECURSIVE RStrip(_)
RStrip(s) ==
  IF s # <<>> /\ s[Len(s)] \in WhiteSpace THEN RStrip(SubSeq(s, 1, Len(s) - 1)) ELSE s

\* str.strip()
Strip(s) == RStrip(LStrip(s))

\* a < b on text (lexicographic by code point)
RECURSIVE StrLess(_, _)
StrLess(a, b) ==
  IF b = <<>> THEN FALSE
  ELSE IF a = <<>> THEN TRUE
  ELSE IF Head(a) = Head(b) THEN StrLess(Tail(a), Tail(b))
  ELSE Ord(Head(a)) < Ord(Head(b))

\* sorted(set(...)) on a set of texts
RECURSIVE SortedStrs(_)
SortedStrs(S) ==
  IF S = {} THEN <<>>
  ELSE LET m == CHOOSE x \in S : \A y \in S : y = x \/ StrLess(x, y)
       IN <<m>> \o SortedStrs(S \ {m})

\* the elements of a sequence
Range(q) == {q[i] : i \in 1..Len(q)}

\* sep.join(parts)
RECURSIVE Join(_, _)
Join(sep, parts) ==
  IF parts = <<>> THEN <<>>
  ELSE IF Len(parts) = 1 THEN parts[1]
  ELSE parts[1] \o sep \o Join(sep, Tail(parts))

(***************************************************************************)
(* JSON values and Python's view of them                                   *)
(***************************************************************************)
Str(s) == [t |-> "str", v |-> s]
Lst(l) == [t |-> "list", v |-> l]
Num(n) == [t |-> "int", v |-> n]
None == [t |-> "none", v |-> <<>>]

IsStr(x) == x.t = "str"
IsList(x) == x.t = "list"

\* d.get(k)
Get(d, k) == IF k \in DOMAIN d THEN d[k] ELSE None

\* d[k] = x
Put(d, k, x) == IF k \in DOMAIN d THEN [d EXCEPT ![k] = x] ELSE d @@ (k :> x)

\* bool(x)
Truthy(x) ==
  CASE x.t = "str" -> x.v # <<>>
    [] x.t = "list" -> x.v # <<>>
    [] x.t = "int" -> x.v # 0
    [] OTHER -> FALSE

\* a or b
Or(a, b) == IF Truthy(a) THEN a ELSE b

Digits == <<"0", "1", "2", "3", "4", "5", "6", "7", "8", "9">>

\* str(n) for an int n >= 0
RECURSIVE DecimalText(_)
DecimalText(n) ==
  IF n < 10 THEN <<Digits[n + 1]>> ELSE DecimalText(n \div 10) \o <<Digits[(n % 10) + 1]>>

\* str(x), as text, for the values the scripts print: text, None, an int
\* and a list of text.  A list prints as its repr, ['a', 'b'].
RECURSIVE PyStr(_)
PyStr(x) ==
  CASE x.t = "str" -> x.v
    [] x.t = "int" -> DecimalText(x.v)
    [] x.t = "list" ->
         <<"[">> \o Join(<<",", " ">>,
                         [i \in 1..Len(x.v) |-> <<"'">> \o PyStr(x.v[i]) \o <<"'">>])
            \o <<"]">>
    [] OTHER -> <<"N", "o", "n", "e">>

(***************************************************************************)
(* processed_schema.py                                                     *)
(***************************************************************************)

\* the character class U+064B..U+065F, U+0670, U+0640
AR_DIACRITICS ==
  { "U+064B", "U+064C", "U+064D", "U+064E", "U+064F", "U+0650", "U+0651",
    "U+0652", "U+0653", "U+0654", "U+0655", "U+0656", "U+0657", "U+0658",
    "U+0659", "U+065A", "U+065B", "U+065C", "U+065D", "U+065E", "U+065F",
    "U+0670", "U+0640" }

\* str.maketrans table of the Arabic root normalisation, as <<from, to>>
AR_ROOT_NORM_MAP ==
  { <<"U+0623", "U+0627">>, <<"U+0625", "U+0627">>, <<"U+0622", "U+0627">>,
    <<"U+0671", "U+0627">>, <<"U+0649", "U+064A">>, <<"U+0624", "U+0648">>,
    <<"U+0626", "U+064A">>, <<"U+0629", "U+0647">> }

\* s with the characters of D removed
RECURSIVE Without(_, _)
Without(s, D) ==
  IF s = <<>> THEN <<>>
  ELSE IF Head(s) \in D THEN Without(Tail(s), D)
  ELSE <<Head(s)>> \o Without(Tail(s), D)

\* str.translate with a table of character pairs
Translate(s, map) ==
  [i \in 1..Len(s) |->
     IF \E p \in map : p[1] = s[i]
     THEN (CHOOSE p \in map : p[1] = s[i])[2]
     ELSE s[i]]

normalize_arabic_root(root) ==
  LET r == Strip(root)
  IN IF r = <<>> THEN <<>> ELSE Translate(Without(r, AR_DIACRITICS), AR_ROOT_NORM_MAP)

Prefix(s, n) == SubSeq(s, 1, IF Len(s) < n THEN Len(s) ELSE n)

\* (binary_root, method)
derive_binary_root(root) ==
  LET root_norm == normalize_arabic_root(root)
  IN IF Len(root_norm) >= 2
     THEN <<Prefix(root_norm, 2), <<"f", "i", "r", "s", "t", "2">> >>
     ELSE << <<>>, <<"m", "i", "s", "s", "i", "n", "g">> >>

\* index of the first c in s at or after position i, 0 when there is none
RECURSIVE Find(_, _, _)
Find(s, c, i) ==
  IF i > Len(s) THEN 0 ELSE IF s[i] = c THEN i ELSE Find(s, c, i + 1)

\* re.sub(r"<[^>]+>", " ", s)
RECURSIVE SubTags(_)
SubTags(s) ==
  IF s = <<>> THEN <<>>
  ELSE IF Head(s) = "<"
       THEN LET j == Find(s, ">", 2)
            IN IF j >= 3 THEN <<" ">> \o SubTags(SubSeq(s, j + 1, Len(s)))
               ELSE <<Head(s)>> \o SubTags(Tail(s))
       ELSE <<Head(s)>> \o SubTags(Tail(s))

\* re.sub(r"\s+", " ", s)
RECURSIVE CollapseWs(_)
CollapseWs(s) ==
  IF s = <<>> THEN <<>>
  ELSE IF Head(s) \in WhiteSpace
       THEN <<" ">> \o CollapseWs(LStrip(s))
       ELSE <<Head(s)>> \o CollapseWs(Tail(s))

strip_html(text) ==
  IF text = <<>> THEN <<>> ELSE Strip(CollapseWs(SubTags(text)))

\* the stress marks removed from IPA
IPA_STRESS_MARKS == {"U+02C8", "U+02CC", "'"}

\* unicodedata.normalize("NFC", s).  No character of Alphabet has a canonical
\* decomposition into, or combines with, another character of Alphabet, so
\* on the text of the model NFC leaves every character in place.
NFC(s) == s

normalize_ipa(ipa) ==
  IF ipa = <<>> THEN <<>>
  ELSE LET a == Strip(ipa)
           b == IF Len(a) >= 2
                   /\ (  (a[1] = "/" /\ a[Len(a)] = "/")
                      \/ (a[1] = "[" /\ a[Len(a)] = "]"))
                THEN Strip(SubSeq(a, 2, Len(a) - 1))
                ELSE a
       IN Without(Without(NFC(b), WhiteSpace), IPA_STRESS_MARKS)

\* [str(item) for item in pos if item]
RECURSIVE TruthyStrs(_)
TruthyStrs(l) ==
  IF l = <<>> THEN <<>>
  ELSE IF Truthy(Head(l)) THEN <<Str(PyStr(Head(l)))>> \o TruthyStrs(Tail(l))
  ELSE TruthyStrs(Tail(l))

\* mutant: a scalar text is trimmed but not put in a list
coerce_pos_list_ScalarKept(pos) ==
  CASE pos.t = "none" -> Lst(<<>>)
    [] pos.t = "list" -> Lst(TruthyStrs(pos.v))
    [] pos.t = "str" -> IF Strip(pos.v) = <<>> THEN Lst(<<>>) ELSE Str(Strip(pos.v))
    [] OTHER -> Lst(<<Str(PyStr(pos))>>)

coerce_pos_list(pos) ==
  CASE pos.t = "none" -> Lst(<<>>)
    [] pos.t = "list" -> Lst(TruthyStrs(pos.v))
    [] pos.t = "str" -> IF Strip(pos.v) = <<>> THEN Lst(<<>>) ELSE Lst(<<Str(Strip(pos.v))>>)
    [] OTHER -> Lst(<<Str(PyStr(pos))>>)

\* hashlib.sha1(payload).hexdigest()[:16]: the digest is an opaque token
\* determined by the payload (collisions of SHA-1 are not modelled).
Sha1Hex16(payload) == <<"<">> \o payload \o <<">">>

stable_id(fields) ==
  LET payload == Join(<<"|">>,
                      [i \in 1..Len(fields) |->
                         IF fields[i].t = "none" THEN <<>> ELSE PyStr(fields[i])])
  IN <<"l", "e", "x", ":">> \o Sha1Hex16(payload)

\* dict.setdefault(k, x)
SetDefault(d, k, x) == IF k \in DOMAIN d THEN d ELSE Put(d, k, x)

StartsWith(s, p) == Len(s) >= Len(p) /\ SubSeq(s, 1, Len(p)) = p

\* mutant: the defaults are not used
EnsureRequired_NoDefaults(rec, dflt) ==
  LET r1 == Put(rec, "lemma", Str(Strip(PyStr(Or(Get(rec, "lemma"), Str(<<>>))))))
      r2 == Put(r1, "language", Str(Strip(PyStr(Or(Get(r1, "language"), Str(<<>>))))))
      r3 == Put(r2, "source", Str(Strip(PyStr(Or(Get(r2, "source"), Str(<<>>))))))
  IN Put(r3, "lemma_status", Str(Strip(PyStr(Or(Get(r3, "lemma_status"), Str(<<>>))))))

\* lines 100-112: lemma, language, stage, script, source, lemma_status
EnsureRequired(rec, dflt) ==
  LET r1 == Put(rec, "lemma", Str(Strip(PyStr(Or(Get(rec, "lemma"), Str(<<>>))))))
      r2 == Put(r1, "language",
                Str(Strip(PyStr(Or(Get(r1, "language"), Or(dflt.language, Str(<<>>)))))))
      r3 == IF "stage" \in DOMAIN r2 /\ r2["stage"].t # "none"
            THEN Put(r2, "stage", Str(Strip(PyStr(Or(r2["stage"], Str(<<>>))))))
            ELSE r2
      r4 == IF "script" \in DOMAIN r3 /\ r3["script"].t # "none"
            THEN Put(r3, "script", Str(Strip(PyStr(Or(r3["script"], Str(<<>>))))))
            ELSE r3
      r5 == Put(r4, "source",
                Str(Strip(PyStr(Or(Get(r4, "source"), Or(dflt.source, Str(<<>>)))))))
  IN Put(r5, "lemma_status",
         Str(Strip(PyStr(Or(Get(r5, "lemma_status"), Or(dflt.lemma_status, Str(<<>>)))))))

\* lines 117-131: translit, root, root_norm, binary_root
EnsureRoot(rec) ==
  LET r1 == IF ~Truthy(Get(rec, "translit")) THEN Put(rec, "translit", rec["lemma"]) ELSE rec
      root == Strip(PyStr(Or(Get(r1, "root"), Str(<<>>))))
  IN IF root = <<>> THEN r1
     ELSE LET r2 == Put(r1, "root", Str(root))
          IN IF ~StartsWith(r2["language"].v, <<"a", "r", "a">>) THEN r2
             ELSE LET root_norm == normalize_arabic_root(root)
                      r3 == IF root_norm # <<>> /\ ~Truthy(Get(r2, "root_norm"))
                            THEN Put(r2, "root_norm", Str(root_norm))
                            ELSE r2
                  IN IF Truthy(Get(r3, "binary_root")) THEN r3
                     ELSE LET bm == derive_binary_root(root)
                              r4 == IF bm[1] # <<>>
                                    THEN Put(r3, "binary_root", Str(bm[1]))
                                    ELSE r3
                          IN SetDefault(r4, "binary_root_method", Str(bm[2]))

\* mutant: a record without ipa and ipa_raw is left without them
EnsureIpa_AddsNothing(rec) ==
  IF "ipa" \in DOMAIN rec \/ "ipa_raw" \in DOMAIN rec
  THEN LET ipa_raw == PyStr(Or(Get(rec, "ipa_raw"), Or(Get(rec, "ipa"), Str(<<>>))))
       IN Put(SetDefault(rec, "ipa_raw", Str(ipa_raw)), "ipa", Str(normalize_ipa(ipa_raw)))
  ELSE rec

\* lines 133-139: ipa, ipa_raw
EnsureIpa(rec) ==
  IF "ipa" \in DOMAIN rec \/ "ipa_raw" \in DOMAIN rec
  THEN LET ipa_raw == PyStr(Or(Get(rec, "ipa_raw"), Or(Get(rec, "ipa"), Str(<<>>))))
       IN Put(SetDefault(rec, "ipa_raw", Str(ipa_raw)), "ipa", Str(normalize_ipa(ipa_raw)))
  ELSE Put(Put(rec, "ipa_raw", Str(<<>>)), "ipa", Str(<<>>))

\* lines 141-147: gloss_html, gloss_plain, pos
EnsureGlossPos(rec) ==
  LET r1 == IF "gloss" \in DOMAIN rec /\ "gloss_html" \notin DOMAIN rec
            THEN Put(rec, "gloss_html", rec["gloss"])
            ELSE rec
      r2 == IF "gloss_html" \in DOMAIN r1 /\ "gloss_plain" \notin DOMAIN r1
            THEN Put(r1, "gloss_plain",
                     Str(strip_html(PyStr(Or(r1["gloss_html"], Str(<<>>))))))
            ELSE r1
  IN IF "pos" \in DOMAIN r2 THEN Put(r2, "pos", coerce_pos_list(r2["pos"])) ELSE r2

\* mutant: an id is computed only when the key is absent, so a blank id stays
EnsureId_OnlyWhenAbsent(rec) ==
  IF "id" \in DOMAIN rec THEN rec
  ELSE Put(rec, "id",
           Str(stable_id(<< Get(rec, "language"), Get(rec, "source"),
                            Get(rec, "source_ref"), Get(rec, "lemma"),
                            Get(rec, "orthography"), Get(rec, "root"),
                            Or(Get(rec, "ipa"), Get(rec, "ipa_raw")),
                            Get(rec, "translit") >>)))

\* mutant: the lemma_status is hashed into the id as well
EnsureId_WithStatus(rec) ==
  IF Truthy(Get(rec, "id")) THEN rec
  ELSE Put(rec, "id",
           Str(stable_id(<< Get(rec, "language"), Get(rec, "source"),
                            Get(rec, "source_ref"), Get(rec, "lemma"),
                            Get(rec, "orthography"), Get(rec, "root"),
                            Or(Get(rec, "ipa"), Get(rec, "ipa_raw")),
                            Get(rec, "translit"), Get(rec, "lemma_status") >>)))

\* lines 149-159: id
EnsureId(rec) ==
  IF Truthy(Get(rec, "id")) THEN rec
  ELSE Put(rec, "id",
           Str(stable_id(<< Get(rec, "language"), Get(rec, "source"),
                            Get(rec, "source_ref"), Get(rec, "lemma"),
                            Get(rec, "orthography"), Get(rec, "root"),
                            Or(Get(rec, "ipa"), Get(rec, "ipa_raw")),
                            Get(rec, "translit") >>)))

\* ensure_min_schema(rec, default_language=, default_source=, default_lemma_status=)
ensure_min_schema(rec, dflt) ==
  EnsureId(EnsureGlossPos(EnsureIpa(EnsureRoot(EnsureRequired(rec, dflt)))))

\* iter_missing_required(rec), as the sequence of the keys it yields
iter_missing_required(rec) ==
  SelectSeq(<<"id", "lemma", "language", "source", "lemma_status">>,
            LAMBDA k : ~Truthy(Get(rec, k)))
    \o SelectSeq(<<"translit", "ipa">>, LAMBDA k : k \notin DOMAIN rec)

(***************************************************************************)
(* merge_arabic_classical_lexemes.py, merge_quranic_arabic_lexemes.py:     *)
(* helpers                                                                 *)
(***************************************************************************)
T_gold == <<"g", "o", "l", "d">>
T_silver == <<"s", "i", "l", "v", "e", "r">>
T_auto == <<"a", "u", "t", "o">>
T_auto_brut == <<"a", "u", "t", "o", "_", "b", "r", "u", "t">>

_has_text(x) == IsStr(x) /\ Strip(x.v) # <<>>

\* rank = {"gold": 4, "silver": 3, "auto": 2, "auto_brut": 1}; rank.get(s, 0)
rank_classical(s) ==
  CASE s = T_gold -> 4
    [] s = T_silver -> 3
    [] s = T_auto -> 2
    [] s = T_auto_brut -> 1
    [] OTHER -> 0

\* mutant: the incoming status always wins
_best_status_LastWins(a, b) == b

_best_status(a, b) ==
  LET ra == rank_classical(Strip(a))
      rb == rank_classical(Strip(b))
  IN IF ra >= rb THEN a ELSE b

\* the first occurrence of every item, compared by str(item), in order
RECURSIVE DedupeByStr(_, _)
DedupeByStr(l, seen) ==
  IF l = <<>> THEN <<>>
  ELSE IF PyStr(Head(l)) \in seen THEN DedupeByStr(Tail(l), seen)
  ELSE <<Head(l)>> \o DedupeByStr(Tail(l), seen \cup {PyStr(Head(l))})

_merge_list_field(dst, src, key) ==
  LET cur == Get(dst, key)
      nxt == Get(src, key)
  IN IF ~Truthy(nxt) THEN dst
     ELSE IF cur.t = "none"
          THEN Put(dst, key, IF IsList(nxt) THEN nxt ELSE Lst(<<nxt>>))
          ELSE LET cur1 == IF IsList(cur) THEN cur.v ELSE <<cur>>
                   cur2 == IF IsList(nxt) THEN cur1 \o nxt.v ELSE Append(cur1, nxt)
               IN Put(dst, key, Lst(DedupeByStr(cur2, {})))

\* mutant: the last non-empty value wins
_pick_LastWins(dst, src, key) ==
  LET x == Get(src, key)
  IN IF x.t = "none" \/ x = Str(<<>>) \/ x = Lst(<<>>) THEN dst ELSE Put(dst, key, x)

_pick(dst, src, key) ==
  IF Truthy(Get(dst, key)) THEN dst
  ELSE LET x == Get(src, key)
       IN IF x.t = "none" \/ x = Str(<<>>) \/ x = Lst(<<>>) THEN dst
          ELSE Put(dst, key, x)

\* for k in keys: _pick(dst, src, k).  The keys are distinct and _pick(dst, src, k)
\* reads and writes dst at k only, so the loop is the pick at every key.
PickAll(dst, src, keys) ==
  LET changed == {k \in Range(keys) : _pick(dst, src, k) # dst}
  IN [k \in changed |-> _pick(dst, src, k)[k]] @@ dst

\* mutant: the lemma is not trimmed
RecLemma_NoStrip(rec) == PyStr(Or(Get(rec, "lemma"), Str(<<>>)))

\* (lemma, root_norm) of a record read from a source, lines 102-106
RecLemma(rec) == Strip(PyStr(Or(Get(rec, "lemma"), Str(<<>>))))
RecRootNorm(rec) ==
  Strip(PyStr(Or(Get(rec, "root_norm"), Or(Get(rec, "root"), Str(<<>>)))))
\* mutant: the key ignores the root
MergeKey_LemmaOnly(rec) == <<RecLemma(rec), <<>> >>
MergeKey(rec) == <<RecLemma(rec), RecRootNorm(rec)>>

S_classical ==
  << "l", "v", "0", ":", "a", "r", "a", "b", "i", "c", ":", "c", "l", "a", "s",
     "s", "i", "c", "a", "l", ":", "l", "e", "x", "e", "m", "e", "s" >>
S_quranic ==
  << "l", "v", "0", ":", "q", "u", "r", "a", "n", "i", "c", "_", "a", "r", "a",
     "b", "i", "c", ":", "l", "e", "x", "e", "m", "e", "s" >>
L_ara == <<"a", "r", "a">>
L_ara_qur == <<"a", "r", "a", "-", "q", "u", "r">>

\* mutant: the record is seeded with a copy of all the fields of the first record
Seed_CopyRecord(rec, lang, source) ==
  LET seed == [ lemma |-> Str(RecLemma(rec)),
                language |-> Str(lang),
                source |-> Str(source),
                source_ref |-> Str(<<"m", "e", "r", "g", "e", ":">> \o RecLemma(rec)
                                   \o <<"|">> \o RecRootNorm(rec)),
                lemma_status |-> Str(PyStr(Or(Get(rec, "lemma_status"), Str(T_auto_brut)))),
                sources |-> Lst(<<>>),
                source_refs |-> Lst(<<>>) ]
  IN [f \in DOMAIN rec \cup DOMAIN seed |-> IF f \in DOMAIN seed THEN seed[f] ELSE rec[f]]

\* the record created on the first sighting of a key (classical lines 110-118,
\* quranic lines 99-107)
Seed(rec, lang, source) ==
  [ lemma |-> Str(RecLemma(rec)),
    language |-> Str(IF Strip(PyStr(Or(Get(rec, "language"), Str(lang)))) # <<>>
                     THEN Strip(PyStr(Or(Get(rec, "language"), Str(lang))))
                     ELSE lang),
    source |-> Str(source),
    source_ref |-> Str(<<"m", "e", "r", "g", "e", ":">> \o RecLemma(rec)
                       \o <<"|">> \o RecRootNorm(rec)),
    lemma_status |-> Str(PyStr(Or(Get(rec, "lemma_status"), Str(T_auto_brut)))),
    sources |-> Lst(<<>>),
    source_refs |-> Lst(<<>>) ]

\* mutant: n_sources is kept up to date while the records are read
AddSourceTag_Counting(cur, tag, rec) ==
  LET c1 == _merge_list_field(cur, [sources |-> Str(tag)], "sources")
      c2 == IF _has_text(Get(rec, "source_ref"))
            THEN _merge_list_field(c1, [source_refs |-> Str(PyStr(Get(rec, "source_ref")))],
                                   "source_refs")
            ELSE c1
  IN Put(c2, "n_sources", Num(Len(c2["sources"].v)))

\* lines 122-124 (classical), 110-112 (quranic): the tag and the source_ref
AddSourceTag(cur, tag, rec) ==
  LET c1 == _merge_list_field(cur, [sources |-> Str(tag)], "sources")
  IN IF _has_text(Get(rec, "source_ref"))
     THEN _merge_list_field(c1, [source_refs |-> Str(PyStr(Get(rec, "source_ref")))],
                            "source_refs")
     ELSE c1

ClassicalPickKeys ==
  << "root", "root_norm", "binary_root", "binary_root_method", "binary_root_first2",
     "binary_root_weakless_first2", "translit", "ipa", "ipa_raw",
     "gloss_plain", "gloss_html", "definition" >>

\* one iteration of the record loop of the classical merge_sources, lines
\* 102-141, for a record with a non-empty lemma: the accumulated record
ClassicalFold(cur0, tag, rec) ==
  LET c1 == Put(cur0, "lemma_status",
                Str(_best_status(PyStr(Or(Get(cur0, "lemma_status"), Str(<<>>))),
                                 PyStr(Or(Get(rec, "lemma_status"), Str(<<>>))))))
      c2 == AddSourceTag(c1, tag, rec)
      c3 == PickAll(c2, rec, ClassicalPickKeys)
      c4 == _merge_list_field(c3, rec, "pos")
  IN PickAll(c4, rec, <<"pos_tag", "example_surface">>)

QuranicPickKeys ==
  <<"root", "root_norm", "translit", "ipa", "ipa_raw", "pos", "pos_tag", "example_surface">>

\* one iteration of the record loop of the quranic merge_sources, lines 91-115
QuranicFold(cur0, tag, rec) == PickAll(AddSourceTag(cur0, tag, rec), rec, QuranicPickKeys)

(***************************************************************************)
(* build_arabic_binary_root_lexicon.py                                     *)
(***************************************************************************)
S_binary ==
  << "l", "v", "2", ":", "a", "r", "a", "b", "i", "c", "_", "b", "i", "n", "a",
     "r", "y", "_", "r", "o", "o", "t", "_", "l", "e", "x", "i", "c", "o", "n" >>

\* DEFAULT_WEAK_LETTERS
DEFAULT_WEAK_LETTERS == {"U+0627", "U+0648", "U+064A", "U+0621"}

normalize_root(root) ==
  LET r == Strip(root)
  IN IF r = <<>> THEN <<>> ELSE Translate(Without(r, AR_DIACRITICS), AR_ROOT_NORM_MAP)

\* derive_binary_root(root_norm, weak_letters=): (binary_root, method, weakless_root)
build_derive_binary_root(root_norm, weak_letters) ==
  LET first2 == IF Len(root_norm) >= 2 THEN Prefix(root_norm, 2) ELSE <<>>
      weakless == Without(root_norm, weak_letters)
  IN IF first2 # <<>>
     THEN <<first2, <<"f", "i", "r", "s", "t", "2">>, weakless>>
     ELSE << <<>>, <<"m", "i", "s", "s", "i", "n", "g">>, weakless>>

\* rank = {"gold": 3, "silver": 2, "auto": 1, "auto_brut": 1}; rank.get(s, 0)
rank_binary(s) ==
  CASE s = T_gold -> 3
    [] s = T_silver -> 2
    [] s = T_auto -> 1
    [] s = T_auto_brut -> 1
    [] OTHER -> 0

best_status(a, b) ==
  LET ra == rank_binary(Strip(a))
      rb == rank_binary(Strip(b))
  IN IF ra >= rb THEN a ELSE b

\* for key in keys: if not cur.get(key) and nxt.get(key): cur[key] = nxt.get(key)
\* (the keys are distinct and an iteration reads and writes cur at its key only)
TakeMissing(cur, nxt, keys) ==
  LET taken == {k \in Range(keys) : ~Truthy(Get(cur, k)) /\ Truthy(Get(nxt, k))}
  IN [k \in taken |-> Get(nxt, k)] @@ cur

merge_records(cur, nxt) ==
  LET c1 == SetDefault(cur, "sources", Lst(<<>>))
      src == Strip(PyStr(Or(Get(nxt, "source"), Str(<<>>))))
      c2 == IF src # <<>> /\ Str(src) \notin Range(c1["sources"].v)
            THEN Put(c1, "sources", Lst(Append(c1["sources"].v, Str(src))))
            ELSE c1
      c3 == Put(c2, "lemma_status",
                Str(best_status(PyStr(Or(Get(c2, "lemma_status"), Str(<<>>))),
                                PyStr(Or(Get(nxt, "lemma_status"), Str(<<>>))))))
  IN TakeMissing(c3, nxt, <<"translit", "ipa_raw", "ipa", "type", "source_ref">>)

BuildRoot(rec) == Strip(PyStr(Or(Get(rec, "root"), Str(<<>>))))

\* key = (lemma, root_norm or root or "")
BuildKey(rec) ==
  <<RecLemma(rec),
    IF normalize_root(BuildRoot(rec)) # <<>> THEN normalize_root(BuildRoot(rec))
    ELSE BuildRoot(rec)>>

\* the record created by add() on the first sighting of a key, lines 130-143
BuildSeed(rec, weak_letters) ==
  LET root == BuildRoot(rec)
      root_norm == normalize_root(root)
      d == build_derive_binary_root(root_norm, weak_letters)
  IN [ lemma |-> Str(RecLemma(rec)),
       root |-> Str(root),
       root_norm |-> Str(root_norm),
       weakless_root |-> Str(d[3]),
       binary_root |-> Str(d[1]),
       binary_root_method |-> Str(d[2]),
       binary_root_first2 |-> Str(IF Len(root_norm) >= 2 THEN Prefix(root_norm, 2) ELSE <<>>),
       binary_root_weakless_first2 |-> Str(IF Len(d[3]) >= 2 THEN Prefix(d[3], 2) ELSE <<>>),
       language |-> Str(L_ara),
       source |-> Str(S_binary),
       lemma_status |-> Str(PyStr(Or(Get(rec, "lemma_status"), Str(T_auto_brut)))),
       sources |-> Lst(<<>>) ]

(***************************************************************************)
(* The run of one script: merge_sources (classical, quranic) or build      *)
(* (binary)                                                                *)
(***************************************************************************)
MaxRecs == 2

TAG_quran ==
  << "q", "u", "r", "a", "n", "i", "c", "-", "c", "o", "r", "p", "u", "s", "-",
     "m", "o", "r", "p", "h", "o", "l", "o", "g", "y" >>
TAG_word_root_map ==
  << "w", "o", "r", "d", "_", "r", "o", "o", "t", "_", "m", "a", "p", ".", "c", "s", "v" >>
TAG_hf_roots ==
  <<"a", "r", "a", "b", "i", "c", "_", "r", "o", "o", "t", "s", "_", "h", "f">>

TAG_binary_root_lexicon ==
  << "l", "v", "0", ":", "a", "r", "a", "b", "i", "c", "_", "b", "i", "n", "a",
     "r", "y", "_", "r", "o", "o", "t", "_", "l", "e", "x", "i", "c", "o", "n" >>

\* the source files of a run, in order: the tags main() gives merge_sources;
\* build reads its two files in a fixed order
SourcesOf(v) ==
  CASE v = "classical" -> <<TAG_quran, TAG_word_root_map, TAG_hf_roots, TAG_binary_root_lexicon>>
    [] v = "quranic" -> <<TAG_quran>>
    [] OTHER -> << <<"word_root_map_path">>, <<"quran_lemmas_path">> >>

\* the defaults each script passes to ensure_min_schema
Defaults(v) ==
  CASE v = "classical" ->
         [language |-> Str(L_ara), source |-> Str(S_classical), lemma_status |-> Str(T_auto_brut)]
    [] v = "quranic" ->
         [language |-> Str(L_ara_qur), source |-> Str(S_quranic), lemma_status |-> Str(T_auto_brut)]
    [] OTHER ->
         [language |-> Str(L_ara), source |-> Str(S_binary), lemma_status |-> Str(T_auto_brut)]

\* The records a source line can hold.
T_attested == <<"a", "t", "t", "e", "s", "t", "e", "d">>
T_unknown == <<"u", "n", "k", "n", "o", "w", "n">>
Base == [lemma |-> Str(<<"a">>), root |-> Str(<<"r">>), source |-> Str(<<"w">>)]
BaseQ == [lemma |-> Str(<<"a">>), root |-> Str(<<"r">>), source |-> Str(<<"q">>)]

InputRecords ==
  { Base,
    Put(Put(BaseQ, "lemma_status", Str(T_gold)), "pos", Lst(<<Str(<<"N">>), Str(<<"N">>)>>)),
    Put(Put(Put(Base, "lemma_status", Str(T_silver)), "translit", Str(<<"t">>)),
        "pos", Lst(<<Str(<<"V">>), Str(<<"N">>)>>)),
    Put(Put(Put(BaseQ, "lemma_status", Str(T_auto)), "translit", Str(<<"u">>)),
        "ipa", Str(<<"/", "i", "/">>)),
    Put(Put(Base, "lemma_status", Str(T_auto_brut)), "translit", Str(<<>>)),
    Put(Put(Put(BaseQ, "lemma_status", Str(T_attested)), "source_ref", Str(<<"s">>)),
        "orthography", Str(<<"o">>)),
    Put(Put(Put(Put(Base, "ipa_raw", Str(<<"e">>)), "language", Str(<<"e", "n", "g">>)),
            "gloss_html", Str(<<"<", "b", ">", "g", "<", "/", "b", ">">>)),
        "pos", Str(<<"N">>)),
    [lemma |-> Str(<<" ", "a">>), root_norm |-> Str(<<"r">>), root |-> Str(<<"q">>),
     lemma_status |-> Str(T_unknown)],
    [lemma |-> Str(<<"b">>), source |-> Str(<<"w">>)],
    [lemma |-> Str(<<" ">>), root |-> Str(<<"r">>), lemma_status |-> Str(T_gold),
     translit |-> Str(<<"t">>), source |-> Str(<<"q">>)],
    [lemma |-> Str(<<"a">>), root |-> Str(<<"U+0623", "r", "U+064E">>),
     source |-> Str(<<"q">>)] }

VARIABLES
  variant,            \* the script that runs: "classical", "quranic", "binary"
  keep_missing_root,  \* build's --keep-missing-root
  sources,            \* the list of source files (their tags), in order
  si,                 \* index in sources of the file being read
  pc,                 \* "next_source", "reading", "writing", "done", "raised"
  rec,                \* the record read last (the loop variable rec)
  merged,             \* the accumulator: key -> record
  rows_in,            \* merge_sources' count of records read
  order,              \* sorted(merged.items()): the keys in writing order
  out,                \* the records written to out_path, in order
  consumed,           \* history: the <<tag, record>> pairs read so far
  pkg,                \* convert_package: the package files and the arguments
  offset_bits,        \* convert_package: int(meta.get("idxoffsetbits", "32"))
  pos,                \* iter_idx: the read position in the index buffer (0-based)
  cpc,                \* convert_package: "load", "scan", "done", "raised"
  yielded,            \* history: the triples iter_idx has yielded, in order
  starts,             \* history: the position at which each yielded record began
  wrote,              \* the records written to out_f, in order
  count,              \* convert_package's count
  nrec,               \* ensure_min_schema: the record the caller passed first
  ndflt,              \* ensure_min_schema: the caller's defaults
  nres,               \* the record after the calls made so far
  ncalls,             \* the number of calls of ensure_min_schema made on it
  ipa_in,             \* normalize_ipa: the IPA text s
  ipa_out,            \* normalize_ipa of s bare, in slashes and in brackets
  adapter,            \* the adapter that runs: "quran", "wiktionary"
  inp,                \* adapter: the records of the input file, in order
  inp_i,              \* adapter: index in inp of the next line
  arec,               \* adapter: the record whose id is being searched
  dis,                \* adapter: base_disambig / dis
  seen_ids,           \* adapter: the dict seen
  awrote,             \* adapter: the records written to out, in order
  apc,                \* adapter: "start", "read", "search", "done"
  ipa_dict,           \* merge: the records of ipa_dict_path, in order
  cmudict,            \* merge: the records of cmudict_path, in order
  erow,               \* merge: the number of records upserted so far
  merged_ipa,         \* merge: the dict merged, key -> record
  eout,               \* merge: the records written to out_f, in order
  epc,                \* merge: "start", "upsert", "done"
  runner,             \* the step runner: "run_ingest", "run_ingest_all"
  require_inputs,     \* --require-inputs
  skip_missing_inputs, \* --skip-missing-inputs
  fail_fast,          \* --fail-fast
  requested,          \* the tags or names asked for with --only (empty: all)
  steps,              \* the steps, in declared order
  step_i,             \* index in steps of the step the loop takes next
  manifest,           \* manifest["steps"]
  any_failed,         \* any_failed
  executed,           \* history: the indices of the steps run by subprocess.run
  rpc,                \* runner: "start", "loop", "exited"
  exit_code           \* the exit code (0 before the run has ended)

\* the state of a run of merge_sources / build
mvars ==
  <<variant, keep_missing_root, sources, si, pc, rec, merged, rows_in, order, out, consumed>>

\* the state of a run of convert_package
cvars == <<pkg, offset_bits, pos, cpc, yielded, starts, wrote, count>>

\* the state of a record under ensure_min_schema
nvars == <<nrec, ndflt, nres, ncalls>>

\* the state of the normalize_ipa comparison
ivars == <<ipa_in, ipa_out>>

\* the state of a run of an adapter
avars == <<adapter, inp, inp_i, arec, dis, seen_ids, awrote, apc>>

\* the state of a run of merge_english_ipa_sources.merge
evars == <<ipa_dict, cmudict, erow, merged_ipa, eout, epc>>

\* the state of a run of a step runner
rvars ==
  <<runner, require_inputs, skip_missing_inputs, fail_fast, requested, steps, step_i, manifest,
    any_failed, executed, rpc, exit_code>>

vars == <<mvars, cvars, nvars, ivars, avars, evars, rvars>>

\* no IPA text is being compared
IpaIdle == ipa_in = <<>> /\ ipa_out = <<>>

\* no adapter is running
AdapterIdle ==
  /\ adapter = "none" /\ inp = <<>> /\ inp_i = 1 /\ arec = <<>> /\ dis = 0
  /\ seen_ids = <<>> /\ awrote = <<>> /\ apc = "idle"

\* no merge of the English IPA sources is running
EnglishIdle ==
  /\ ipa_dict = <<>> /\ cmudict = <<>> /\ erow = 0 /\ merged_ipa = <<>>
  /\ eout = <<>> /\ epc = "idle"

\* no step runner is running
RunnerIdle ==
  /\ runner = "none" /\ require_inputs = FALSE /\ skip_missing_inputs = FALSE
  /\ fail_fast = FALSE /\ requested = {} /\ steps = <<>> /\ step_i = 1 /\ manifest = <<>>
  /\ any_failed = FALSE /\ executed = <<>> /\ rpc = "idle" /\ exit_code = 0

\* nothing but the merge scripts, the converter and the normalizer can run
OthersIdle == IpaIdle /\ AdapterIdle /\ EnglishIdle /\ RunnerIdle

\* no package is being converted
ConvertIdle ==
  /\ pkg = <<>> /\ offset_bits = 0 /\ pos = 0 /\ cpc = "idle"
  /\ yielded = <<>> /\ starts = <<>> /\ wrote = <<>> /\ count = 0

\* no record is being normalised on its own
NormalizeIdle == nrec = <<>> /\ ndflt = <<>> /\ nres = <<>> /\ ncalls = 0

\* no merge is running
MergeIdle ==
  /\ variant = "none" /\ keep_missing_root = FALSE /\ sources = <<>> /\ si = 1
  /\ pc = "idle" /\ rec = <<>> /\ merged = <<>> /\ rows_in = 0 /\ order = <<>>
  /\ out = <<>> /\ consumed = <<>>

\* the body of the record loop: the accumulator after the record is handled
Accumulate(v, keep, m, tag, r) ==
  IF RecLemma(r) = <<>> THEN m
  ELSE IF v = "binary"
       THEN IF BuildRoot(r) = <<>> /\ ~keep THEN m
            ELSE LET key == BuildKey(r)
                     base == IF key \in DOMAIN m THEN m[key]
                             ELSE BuildSeed(r, DEFAULT_WEAK_LETTERS)
                 IN Put(m, key, merge_records(base, r))
       ELSE LET key == MergeKey(r)
                cur == IF key \in DOMAIN m THEN m[key]
                       ELSE IF v = "classical" THEN Seed(r, L_ara, S_classical)
                       ELSE Seed(r, L_ara_qur, S_quranic)
            IN Put(m, key, IF v = "classical" THEN ClassicalFold(cur, tag, r)
                           ELSE QuranicFold(cur, tag, r))

\* the order of the write loop: (root_norm, lemma) in merge_sources,
\* (lemma, root) in build
KeyLess(v, a, b) ==
  IF v = "binary"
  THEN StrLess(a[1], b[1]) \/ (a[1] = b[1] /\ StrLess(a[2], b[2]))
  ELSE StrLess(a[2], b[2]) \/ (a[2] = b[2] /\ StrLess(a[1], b[1]))

RECURSIVE SortedKeys(_, _)
SortedKeys(v, S) ==
  IF S = {} THEN <<>>
  ELSE LET m == CHOOSE x \in S : \A y \in S : y = x \/ KeyLess(v, x, y)
       IN <<m>> \o SortedKeys(v, S \ {m})

\* mutant: the list is left in insertion order
SortedSet_Unsorted(r, key) == Or(Get(r, key), Lst(<<>>))

\* sorted(set(rec.get(key) or []))
SortedSet(r, key) ==
  LET l == Or(Get(r, key), Lst(<<>>)).v
      sorted == SortedStrs({l[i].v : i \in 1..Len(l)})
  IN Lst([i \in 1..Len(sorted) |-> Str(sorted[i])])

\* the body of the write loop: the record as written (classical lines 147-150,
\* quranic lines 120-128, build lines 157-159)
Finalize(v, r) ==
  LET r1 == Put(r, "sources", SortedSet(r, "sources"))
      r2 == IF v = "binary" THEN r1 ELSE Put(r1, "source_refs", SortedSet(r1, "source_refs"))
      r3 == Put(r2, "n_sources", Num(Len(r2["sources"].v)))
  IN ensure_min_schema(r3, Defaults(v))

Init ==
  /\ variant \in {"classical", "quranic", "binary"}
  /\ keep_missing_root \in (IF variant = "binary" THEN BOOLEAN ELSE {FALSE})
  /\ sources = SourcesOf(variant)
  /\ si = 1
  /\ pc = "next_source"
  /\ rec = <<>>
  /\ merged = <<>>
  /\ rows_in = 0
  /\ order = <<>>
  /\ out = <<>>
  /\ consumed = <<>>
  /\ ConvertIdle /\ NormalizeIdle /\ OthersIdle

\* src.path.exists(): the file is there and is opened
OpenSource ==
  /\ pc = "next_source" /\ si <= Len(sources)
  /\ pc' = "reading"
  /\ UNCHANGED <<variant, keep_missing_root, sources, si, rec, merged, rows_in, order, out, consumed>>
  /\ UNCHANGED <<cvars, nvars, ivars, avars, evars, rvars>>

\* not src.path.exists(): continue
SkipMissing ==
  /\ pc = "next_source" /\ si <= Len(sources)
  /\ si' = si + 1
  /\ UNCHANGED <<variant, keep_missing_root, sources, pc, rec, merged, rows_in, order, out, consumed>>
  /\ UNCHANGED <<cvars, nvars, ivars, avars, evars, rvars>>

\* iter_jsonl yields the record of the next non-blank line; the loop body runs
ReadRecord ==
  /\ pc = "reading" /\ Len(consumed) < MaxRecs
  /\ \E r \in InputRecords :
       /\ rec' = r
       /\ rows_in' = IF variant = "binary" THEN rows_in ELSE rows_in + 1
       /\ merged' = Accumulate(variant, keep_missing_root, merged, sources[si], r)
       /\ consumed' = Append(consumed, <<sources[si], r>>)
  /\ UNCHANGED <<variant, keep_missing_root, sources, si, pc, order, out>>
  /\ UNCHANGED <<cvars, nvars, ivars, avars, evars, rvars>>

\* the next non-blank line is not JSON: json.loads raises out of iter_jsonl
\* and out of merge_sources / build
ReadMalformed ==
  /\ pc = "reading"
  /\ pc' = "raised"
  /\ UNCHANGED <<variant, keep_missing_root, sources, si, rec, merged, rows_in, order, out, consumed>>
  /\ UNCHANGED <<cvars, nvars, ivars, avars, evars, rvars>>

\* the file is exhausted: next source
EndOfFile ==
  /\ pc = "reading"
  /\ si' = si + 1
  /\ pc' = "next_source"
  /\ UNCHANGED <<variant, keep_missing_root, sources, rec, merged, rows_in, order, out, consumed>>
  /\ UNCHANGED <<cvars, nvars, ivars, avars, evars, rvars>>

\* all sources are read: out_path is opened and the sorted items are taken
BeginWrite ==
  /\ pc = "next_source" /\ si > Len(sources)
  /\ order' = SortedKeys(variant, DOMAIN merged)
  /\ pc' = "writing"
  /\ UNCHANGED <<variant, keep_missing_root, sources, si, rec, merged, rows_in, out, consumed>>
  /\ UNCHANGED <<cvars, nvars, ivars, avars, evars, rvars>>

\* one iteration of the write loop: the record is finished in place and written
WriteRecord ==
  /\ pc = "writing" /\ Len(out) < Len(order)
  /\ LET key == order[Len(out) + 1]
         fin == Finalize(variant, merged[key])
     IN /\ merged' = Put(merged, key, fin)
        /\ out' = Append(out, fin)
  /\ UNCHANGED <<variant, keep_missing_root, sources, si, pc, rec, rows_in, order, consumed>>
  /\ UNCHANGED <<cvars, nvars, ivars, avars, evars, rvars>>

\* return {"rows_in": rows_in, "rows_out": wrote}
Return ==
  /\ pc = "writing" /\ Len(out) = Len(order)
  /\ pc' = "done"
  /\ UNCHANGED <<variant, keep_missing_root, sources, si, rec, merged, rows_in, order, out, consumed>>
  /\ UNCHANGED <<cvars, nvars, ivars, avars, evars, rvars>>

Next ==
  \/ OpenSource
  \/ SkipMissing
  \/ ReadRecord
  \/ ReadMalformed
  \/ EndOfFile
  \/ BeginWrite
  \/ WriteRecord
  \/ Return

Spec == Init /\ [][Next]_vars

(***************************************************************************)
(* merge_sources / build as a function of the records read, in order       *)
(***************************************************************************)
RECURSIVE FoldAll(_, _, _, _)
FoldAll(v, keep, m, seq) ==
  IF seq = <<>> THEN m
  ELSE FoldAll(v, keep, Accumulate(v, keep, m, Head(seq)[1], Head(seq)[2]), Tail(seq))

\* the records written for the <<tag, record>> pairs seq, in writing order
OutputOf(v, keep, seq) ==
  LET m == FoldAll(v, keep, <<>>, seq)
      ord == SortedKeys(v, DOMAIN m)
  IN [i \in 1..Len(ord) |-> Finalize(v, m[ord[i]])]

(***************************************************************************)
(* Vocabulary of the properties                                            *)
(***************************************************************************)
IsMerge == variant \in {"classical", "quranic"}

\* the merge key of an input record as the contract states it: the trimmed
\* lemma and the trimmed root_norm, or root when root_norm is empty or absent
ContractKey(r) ==
  LET lemma == IF "lemma" \in DOMAIN r THEN Strip(r["lemma"].v) ELSE <<>>
      rn == IF "root_norm" \in DOMAIN r /\ r["root_norm"].v # <<>> THEN r["root_norm"].v
            ELSE IF "root" \in DOMAIN r THEN r["root"].v
            ELSE <<>>
  IN <<lemma, Strip(rn)>>

\* positions in seq of the records with a non-empty lemma and contract key k
Contributors(seq, k) ==
  {i \in 1..Len(seq) : ContractKey(seq[i][2])[1] # <<>> /\ ContractKey(seq[i][2]) = k}

ContractKeys(seq) ==
  {ContractKey(seq[i][2]) : i \in {j \in 1..Len(seq) : ContractKey(seq[j][2])[1] # <<>>}}

\* the lemma_status text of an input record, "" when absent
StatusOf(r) == IF "lemma_status" \in DOMAIN r THEN r["lemma_status"].v ELSE <<>>

\* the four-tier ranking gold > silver > auto > auto_brut > absent/unknown
Tier(s) ==
  IF Strip(s) = T_gold THEN 4
  ELSE IF Strip(s) = T_silver THEN 3
  ELSE IF Strip(s) = T_auto THEN 2
  ELSE IF Strip(s) = T_auto_brut THEN 1
  ELSE 0

Perms(n) == {f \in [1..n -> 1..n] : \A i, j \in 1..n : f[i] = f[j] => i = j}

\* the records of one source stay together
Grouped(p) ==
  \A i, j, l \in 1..Len(p) : (i < j /\ j < l /\ p[i][1] = p[l][1]) => p[j][1] = p[i][1]

\* the reorderings of seq that permute the sources and the records within a
\* source
Reorderings(seq) ==
  {p \in {[i \in 1..Len(seq) |-> seq[f[i]]] : f \in Perms(Len(seq))} : Grouped(p)}

\* f keeps the records of every source of seq in their order
KeepsStreams(seq, f) ==
  \A i, j \in 1..Len(seq) : (i < j /\ seq[f[i]][1] = seq[f[j]][1]) => f[i] < f[j]

\* the reorderings of seq that permute the sources and keep every source's
\* records in their order
SourceReorderings(seq) ==
  {p \in {[i \in 1..Len(seq) |-> seq[f[i]]] :
            f \in {g \in Perms(Len(seq)) : KeepsStreams(seq, g)}} : Grouped(p)}

\* the scalar fields merge_sources fills by _pick
PickKeysOf(v) ==
  IF v = "classical" THEN Range(ClassicalPickKeys) \cup {"pos_tag", "example_surface"}
  ELSE Range(QuranicPickKeys)

\* the fields of an input record that merge_sources reads
HandledFields(v) ==
  {"lemma", "language", "source_ref", "lemma_status", "pos"} \cup PickKeysOf(v)

\* the fields a written record can have: those merge_sources sets and those
\* ensure_min_schema adds
OutputFields(v) ==
  HandledFields(v) \cup
    { "source", "sources", "source_refs", "n_sources", "translit", "ipa", "ipa_raw",
      "root", "root_norm", "binary_root", "binary_root_method", "gloss_plain", "id" }

\* the items of a pos value: a list's items, a scalar as one item
PosItems(r) ==
  IF "pos" \notin DOMAIN r \/ ~Truthy(r["pos"]) THEN <<>>
  ELSE IF IsList(r["pos"]) THEN r["pos"].v ELSE <<r["pos"]>>

\* the pos items of the records of key k, in reading order
RECURSIVE PosOfKey(_, _)
PosOfKey(seq, k) ==
  IF seq = <<>> THEN <<>>
  ELSE (IF ContractKey(Head(seq)[2]) = k /\ k[1] # <<>> THEN PosItems(Head(seq)[2]) ELSE <<>>)
         \o PosOfKey(Tail(seq), k)

\* each distinct item once, in first-seen order
RECURSIVE FirstSeen(_)
FirstSeen(l) ==
  IF l = <<>> THEN <<>>
  ELSE LET init == FirstSeen(SubSeq(l, 1, Len(l) - 1))
       IN IF l[Len(l)] \in Range(init) THEN init ELSE Append(init, l[Len(l)])

\* the strict four-tier resolution: the strictly higher-ranked of current and
\* incoming, the current one on a tie
StrictBest(cur, inc) == IF Tier(inc) > Tier(cur) THEN inc ELSE cur

(***************************************************************************)
(* convert_stardict.py                                                     *)
(*                                                                         *)
(* A byte is an integer 0..255 and a buffer a sequence of bytes, indexed   *)
(* from 0 as in Python (buffer index p is element p + 1 of the sequence).  *)
(* Python's integers are unbounded: an integer read from the index is kept *)
(* as its big-endian base-256 numeral without leading zero bytes (<<>> is  *)
(* 0, <<1, 0>> is 256, <<1, 0, 0, 0, 0>> is 2^32).                         *)
(***************************************************************************)

\* data[a:b] for 0 <= a, b: the bytes at indices a..b-1 that exist
Slice(data, a, b) ==
  LET e == IF b < Len(data) THEN b ELSE Len(data)
  IN IF a >= e THEN <<>> ELSE SubSeq(data, a + 1, e)

\* the characters of the code points the text of a package is made of
Chr ==
  (1 :> "U+0001") @@ (4 :> "U+0004") @@ (32 :> " ") @@ (60 :> "<") @@ (62 :> ">")
    @@ (97 :> "a") @@ (98 :> "b") @@ (103 :> "g") @@ (233 :> "U+00E9")

\* bytes.decode("utf-8", errors="ignore") on one- and two-byte sequences: a
\* byte that does not start or continue a well-formed sequence is dropped.
\* (The buffers of the model hold no lead byte of a longer sequence.)
RECURSIVE Utf8Decode(_)
Utf8Decode(bs) ==
  IF bs = <<>> THEN <<>>
  ELSE IF bs[1] < 128 THEN <<Chr[bs[1]]>> \o Utf8Decode(Tail(bs))
  ELSE IF bs[1] \in 194..223 /\ Len(bs) >= 2 /\ bs[2] \in 128..191
       THEN <<Chr[(bs[1] - 192) * 64 + (bs[2] - 128)]>> \o Utf8Decode(Tail(Tail(bs)))
  ELSE Utf8Decode(Tail(bs))

\* int.from_bytes(bs, "big"), as a numeral
RECURSIVE int_from_bytes(_)
int_from_bytes(bs) ==
  IF bs # <<>> /\ Head(bs) = 0 THEN int_from_bytes(Tail(bs)) ELSE bs

\* the value of a numeral of at most two bytes
Small(n) == Len(n) <= 2
Val(n) == IF n = <<>> THEN 0 ELSE IF Len(n) = 1 THEN n[1] ELSE n[1] * 256 + n[2]

\* dict_bytes[offset : offset + size]; a buffer of the model is shorter than
\* 2^16 bytes, so a numeral of three bytes or more lies beyond its end
SlicePayload(dict_bytes, offset, size) ==
  IF ~Small(offset) THEN <<>>
  ELSE Slice(dict_bytes, Val(offset),
             IF Small(size) THEN Val(offset) + Val(size) ELSE Len(dict_bytes))

T_idxoffsetbits ==
  <<"i", "d", "x", "o", "f", "f", "s", "e", "t", "b", "i", "t", "s">>

\* read_ifo on the lines of the file: meta as a function from keys to values,
\* a later line replacing an earlier one with the same key
RECURSIVE read_ifo_lines(_, _)
read_ifo_lines(lines, meta) ==
  IF lines = <<>> THEN meta
  ELSE LET line == Head(lines)
           j == Find(line, "=", 1)
       IN IF j = 0 THEN read_ifo_lines(Tail(lines), meta)
          ELSE read_ifo_lines(Tail(lines),
                              Put(meta, Strip(SubSeq(line, 1, j - 1)),
                                  Strip(SubSeq(line, j + 1, Len(line)))))

read_ifo(lines) == read_ifo_lines(lines, <<>>)

\* int(s) succeeds: s is a decimal numeral.  (The values of the model carry
\* no sign, underscore or inner blank.)
IsInt(s) == s # <<>> /\ \A i \in 1..Len(s) : s[i] \in Range(Digits)

\* int(s) for such an s
RECURSIVE IntOf(_)
IntOf(s) ==
  IF s = <<>> THEN 0
  ELSE IntOf(SubSeq(s, 1, Len(s) - 1)) * 10
         + ((CHOOSE d \in 1..10 : Digits[d] = s[Len(s)]) - 1)

\* meta.get("idxoffsetbits", "32")
OffsetBitsText(meta) ==
  IF T_idxoffsetbits \in DOMAIN meta THEN meta[T_idxoffsetbits] ELSE <<"3", "2">>

\* the width in bytes of an offset in the index, lines 40-45
OffsetBytes(bits) == IF bits = 64 THEN 8 ELSE 4

\* mutant: the read position is not moved past the record
NextPos_Stuck(p, end, bits) == p

\* the read position after the record that began at p and whose word ends at end
NextPos(p, end, bits) == end + 1 + OffsetBytes(bits) + 4

\* iter_idx's loop goes on: pos < len(data) and data.find(b"\x00", pos) != -1
HasRecord(data, p) == p < Len(data) /\ Find(data, 0, p + 1) # 0

\* mutant: the offset is read from the first four bytes whatever the width
IdxRecord_Offset4(data, p, bits) ==
  LET end == Find(data, 0, p + 1) - 1
  IN [ word |-> Utf8Decode(Slice(data, p, end)),
       offset |-> int_from_bytes(Slice(data, end + 1, end + 1 + 4)),
       size |-> int_from_bytes(Slice(data, end + 1 + OffsetBytes(bits),
                                     end + 1 + OffsetBytes(bits) + 4)),
       next |-> NextPos(p, end, bits) ]

\* one iteration of iter_idx's loop, lines 35-48: the triple yielded and the
\* read position after it
IdxRecord(data, p, bits) ==
  LET end == Find(data, 0, p + 1) - 1
  IN [ word |-> Utf8Decode(Slice(data, p, end)),
       offset |-> int_from_bytes(Slice(data, end + 1, end + 1 + OffsetBytes(bits))),
       size |-> int_from_bytes(Slice(data, end + 1 + OffsetBytes(bits),
                                     end + 1 + OffsetBytes(bits) + 4)),
       next |-> NextPos(p, end, bits) ]

\* the triples iter_idx yields from position p on
RECURSIVE IterFrom(_, _, _)
IterFrom(data, p, bits) ==
  IF HasRecord(data, p)
  THEN LET r == IdxRecord(data, p, bits)
       IN << <<r.word, r.offset, r.size>> >> \o IterFrom(data, r.next, bits)
  ELSE <<>>

iter_idx(data, bits) == IterFrom(data, 0, bits)

S_stardict ==
  << "w", "i", "k", "t", "i", "o", "n", "a", "r", "y", "-", "s", "t", "a", "r",
     "d", "i", "c", "t" >>

NoDefaults == [language |-> None, source |-> None, lemma_status |-> None]

\* the body of convert_package's loop, lines 125-138: the record written
ConvertedEntry(dict_bytes, word, offset, size, lang, source_ref_prefix) ==
  LET gloss == Utf8Decode(SlicePayload(dict_bytes, offset, size))
  IN ensure_min_schema(
       [ lemma |-> Str(word),
         gloss_html |-> Str(gloss),
         gloss_plain |-> Str(strip_html(gloss)),
         language |-> Str(lang),
         source |-> Str(S_stardict),
         source_ref |-> Str(IF source_ref_prefix # <<>>
                            THEN source_ref_prefix \o <<":">> \o word
                            ELSE word),
         lemma_status |-> Str(T_auto_brut),
         pos |-> Lst(<<>>) ],
       NoDefaults)

(***************************************************************************)
(* The packages of the model                                               *)
(***************************************************************************)
MaxEntries == 2

\* the UTF-8 bytes of a text over Chr
RECURSIVE Utf8Encode(_)
Utf8Encode(s) ==
  IF s = <<>> THEN <<>>
  ELSE LET n == CHOOSE m \in DOMAIN Chr : Chr[m] = Head(s)
       IN (IF n < 128 THEN <<n>> ELSE <<192 + (n \div 64), 128 + (n % 64)>>)
            \o Utf8Encode(Tail(s))

\* a numeral on w bytes, big-endian
to_bytes(n, w) == [i \in 1..(w - Len(n)) |-> 0] \o n

\* an index record: the word, a NUL, the offset on bits/8 bytes, the length
\* on 4 bytes
EncodeEntry(e, bits) ==
  Utf8Encode(e[1]) \o <<0>> \o to_bytes(e[2], bits \div 8) \o to_bytes(e[3], 4)

RECURSIVE EncodeIndex(_, _)
EncodeIndex(index, bits) ==
  IF index = <<>> THEN <<>>
  ELSE EncodeEntry(Head(index), bits) \o EncodeIndex(Tail(index), bits)

\* the <<word, offset, length>> entries an index of the given width can hold
Entries(bits) ==
  { e \in { << <<"a">>, <<>>, <<1>> >>,
            << <<>>, <<1>>, <<4>> >>,
            << <<"b", " ", "U+00E9">>, <<1, 0>>, <<1>> >>,
            << <<"a">>, <<1, 0, 0, 0, 0>>, <<255, 255, 255, 255>> >> } :
      Len(e[2]) <= bits \div 8 }

RECURSIVE SeqsUpTo(_, _)
SeqsUpTo(S, n) ==
  IF n = 0 THEN {<<>>}
  ELSE LET shorter == SeqsUpTo(S, n - 1)
       IN shorter \cup {Append(q, x) : q \in {t \in shorter : Len(t) = n - 1}, x \in S}

\* what follows the last complete record of the index: nothing, or a piece of
\* a record
Tails ==
  { <<>>, <<97>>, <<0>>, <<97, 0>>, <<97, 0, 0, 0, 0, 1>>, <<255, 98, 0, 0, 0, 1, 0, 0>> }

\* the .ifo files: without idxoffsetbits, with 32, with 64, with 16 and with
\* a value that is not a number
L_version == <<"v", "e", "r", "s", "i", "o", "n", "=", "2", ".", "4", ".", "2">>
L_header == <<"S", "t", "a", "r", "D", "i", "c", "t", "'", "s", " ", "f", "i", "l", "e">>
IfoLine(val) == T_idxoffsetbits \o <<"=">> \o val
IfoFiles ==
  { <<L_header, L_version>>,
    <<L_header, L_version, IfoLine(<<"3", "2">>)>>,
    <<L_header, IfoLine(<<"3", "2">>), <<" ">> \o T_idxoffsetbits \o <<" ", "=", " ", "6", "4", " ">> >>,
    <<L_header, IfoLine(<<"1", "6">>)>>,
    <<L_header, IfoLine(<<"x">>)>> }

\* the .dict payloads
Payloads == { <<103>>, <<60, 98, 62, 103, 32, 195, 169>> }

\* main(): the language and the slug of a folder named "la"
L_la == <<"l", "a">>

\* the packages convert_package can be given: the files of the folder, the
\* limit (0 for None) and, for the record, what the index was made of
Packages ==
  UNION { { [ ifo |-> ifo, idx |-> EncodeIndex(index, bits) \o tail, dict |-> dict,
              limit |-> limit, index |-> index, bits |-> bits, tail |-> tail ] :
              index \in SeqsUpTo(Entries(bits), MaxEntries), tail \in Tails,
              ifo \in IfoFiles, dict \in Payloads, limit \in {0, 1} } :
          bits \in {32, 64} }

ConvertInit ==
  /\ MergeIdle /\ NormalizeIdle /\ OthersIdle
  /\ pkg = <<>> /\ offset_bits = 0 /\ pos = 0 /\ cpc = "load"
  /\ yielded = <<>> /\ starts = <<>> /\ wrote = <<>> /\ count = 0

\* lines 107-122: the files of the package are found, the metadata is read,
\* the width is a number, the payload is loaded and out_path is opened
LoadPackage ==
  /\ cpc = "load"
  /\ \E p \in Packages :
       /\ IsInt(OffsetBitsText(read_ifo(p.ifo)))
       /\ pkg' = p
       /\ offset_bits' = IntOf(OffsetBitsText(read_ifo(p.ifo)))
  /\ cpc' = "scan"
  /\ UNCHANGED <<pos, yielded, starts, wrote, count>>
  /\ UNCHANGED <<mvars, nvars, ivars, avars, evars, rvars>>

\* line 118: int() raises ValueError out of convert_package
LoadPackageRaises ==
  /\ cpc = "load"
  /\ \E p \in Packages :
       /\ ~IsInt(OffsetBitsText(read_ifo(p.ifo)))
       /\ pkg' = p
  /\ cpc' = "raised"
  /\ UNCHANGED <<offset_bits, pos, yielded, starts, wrote, count>>
  /\ UNCHANGED <<mvars, nvars, ivars, avars, evars, rvars>>

\* iter_idx yields the next triple and the loop body of convert_package runs:
\* the record is written and counted; the loop ends when the limit is reached
ConvertEntry ==
  /\ cpc = "scan" /\ HasRecord(pkg.idx, pos)
  /\ LET r == IdxRecord(pkg.idx, pos, offset_bits)
     IN /\ yielded' = Append(yielded, <<r.word, r.offset, r.size>>)
        /\ starts' = Append(starts, pos)
        /\ pos' = r.next
        /\ wrote' = Append(wrote, ConvertedEntry(pkg.dict, r.word, r.offset, r.size, L_la, L_la))
  /\ count' = count + 1
  /\ cpc' = IF pkg.limit # 0 /\ count + 1 >= pkg.limit THEN "done" ELSE "scan"
  /\ UNCHANGED <<pkg, offset_bits>>
  /\ UNCHANGED <<mvars, nvars, ivars, avars, evars, rvars>>

\* iter_idx ends (end of the buffer, or no NUL from pos on): return count
EndOfIndex ==
  /\ cpc = "scan" /\ ~HasRecord(pkg.idx, pos)
  /\ cpc' = "done"
  /\ UNCHANGED <<pkg, offset_bits, pos, yielded, starts, wrote, count>>
  /\ UNCHANGED <<mvars, nvars, ivars, avars, evars, rvars>>

ConvertNext ==
  \/ LoadPackage
  \/ LoadPackageRaises
  \/ ConvertEntry
  \/ EndOfIndex

ConvertSpec == ConvertInit /\ [][ConvertNext]_vars

\* The loop of a sequential program takes its next step: weak fairness of
\* EndOfIndex and of ConvertEntry.  ConvertEntry is enabled exactly when the
\* scan is on and a record is left, and each of its steps changes count, so
\* WF_vars(ConvertEntry), that is []<>~ENABLED <<ConvertEntry>>_vars \/
\* []<><<ConvertEntry>>_vars, is written with that condition.
ConvertFairSpec ==
  /\ ConvertSpec
  /\ WF_vars(EndOfIndex)
  /\ ([]<>~(cpc = "scan" /\ HasRecord(pkg.idx, pos)) \/ []<><<ConvertEntry>>_vars)

(***************************************************************************)
(* ensure_min_schema on a record of its own, called again on its result    *)
(***************************************************************************)
MaxCalls == 2

\* a key the record does not have
Absent == [t |-> "absent", v |-> <<>>]

\* the record {k: x}, or the empty record when the key is absent
Field(k, x) == IF x = Absent THEN <<>> ELSE (k :> x)

\* the records a caller can pass: every field absent or present, with None,
\* blank, padded, wrapped and list values
SchemaRecords ==
  { Field("lemma", lemma) @@ Field("language", language) @@ Field("source", source)
      @@ Field("lemma_status", status) @@ Field("ipa", ipa) @@ Field("ipa_raw", ipa_raw)
      @@ Field("root", root) @@ Field("gloss_html", gloss) @@ Field("pos", p) :
      lemma \in {Absent, None, Str(<<"a">>), Str(<<" ", "a", " ">>)},
      language \in {Absent, Str(L_ara), Str(<<" ">>)},
      source \in {Absent, Str(<<" ", "w">>)},
      status \in {Absent, Str(T_gold)},
      ipa \in {Absent, None, Str(<<"[", "/", "a", "/", "]">>),
               Str(<<"/", "U+02C8", "a", " ", "b", "/">>)},
      ipa_raw \in {Absent, Str(<<>>), Str(<<"e">>)},
      root \in {Absent, Str(<<"U+0623", "r", "U+064E">>)},
      gloss \in {Absent, Str(<<"<", "b", ">", "g", "<", "/", "b", ">">>)},
      p \in {Absent, Lst(<<Str(<<" ", "N">>), Str(<<>>)>>)} }

\* the defaults a caller can pass: none, or those of the classical merge

\* records that vary the id, the fields read only for the id, and the shape
\* of pos (absent, null, text, int, list)
ShapeRecords ==
  { Field("lemma", Str(<<"a">>)) @@ Field("id", id) @@ Field("translit", translit)
      @@ Field("source_ref", source_ref) @@ Field("orthography", orthography)
      @@ Field("pos", p) :
      id \in {Absent, None, Str(<<>>), Str(<<"k">>)},
      translit \in {Absent, Str(<<>>), Str(<<"t">>)},
      source_ref \in {Absent, Str(<<"r">>)},
      orthography \in {Absent, Str(<<"o">>)},
      p \in {Absent, None, Str(<<" ", "N", " ">>), Str(<<" ">>), Num(0), Num(2),
             Lst(<<>>), Lst(<<Str(<<"V">>), Num(0), Str(<<" ">>), None, Str(<<"N">>), Num(2)>>)} }

NormRecords == SchemaRecords \cup ShapeRecords

NormDefaults == {NoDefaults, Defaults("classical")}

NormalizeInit ==
  /\ MergeIdle /\ ConvertIdle /\ OthersIdle
  /\ nrec \in NormRecords
  /\ ndflt \in NormDefaults
  /\ nres = nrec
  /\ ncalls = 0

\* rec = ensure_min_schema(rec, ...)
Normalize ==
  /\ ncalls < MaxCalls
  /\ nres' = ensure_min_schema(nres, ndflt)
  /\ ncalls' = ncalls + 1
  /\ UNCHANGED <<nrec, ndflt>>
  /\ UNCHANGED <<mvars, cvars, ivars, avars, evars, rvars>>

NormalizeNext == Normalize

NormalizeSpec == NormalizeInit /\ [][NormalizeNext]_vars

\* the byte range [offset, offset + length) of a triple does not fit in a
\* payload of n bytes
Exceeds(e, n) == ~Small(e[2]) \/ ~Small(e[3]) \/ Val(e[2]) + Val(e[3]) > n

\* the triples whose byte range fits in a payload of n bytes, in order
RECURSIVE Fitting(_, _)
Fitting(seq, n) ==
  IF seq = <<>> THEN <<>>
  ELSE (IF Exceeds(Head(seq), n) THEN <<>> ELSE <<Head(seq)>>) \o Fitting(Tail(seq), n)

(***************************************************************************)
(* Properties                                                              *)
(***************************************************************************)

\* C1: every record written by merge_sources (classical and quranic) carries
\* the highest tier, under gold > silver > auto > auto_brut > absent/unknown,
\* among the lemma_status values of the input records of its key: no input
\* record of the key outranks it, and its tier is that of one of them (or the
\* default auto_brut that stands for an absent status).
C1_StatusIsHighestTier ==
  IsMerge =>
    \A i \in 1..Len(out) :
      LET cs == Contributors(consumed, order[i])
          st == out[i]["lemma_status"].v
      IN /\ \A j \in cs : Tier(st) >= Tier(StatusOf(consumed[j][2]))
         /\ \/ \E j \in cs : Tier(st) = Tier(StatusOf(consumed[j][2]))
            \/ st = T_auto_brut

\* C2: in a merge_sources run the accumulator holds exactly one record per
\* distinct merge key (trimmed lemma, trimmed root_norm-or-root) of the
\* records read with a non-empty lemma, each kept under the key computed when
\* it was read whatever the accumulated record has become; at the end one
\* record is written per key, and the record of a key carries the tags of
\* exactly the records read with that key.
C2_OneRecordPerKey ==
  IsMerge =>
    /\ DOMAIN merged = ContractKeys(consumed)
    /\ \A k \in DOMAIN merged :
         /\ merged[k]["lemma"].v = k[1]
         /\ merged[k]["source_ref"].v = <<"m", "e", "r", "g", "e", ":">> \o k[1] \o <<"|">> \o k[2]
    /\ pc = "done" =>
         /\ Len(out) = Cardinality(ContractKeys(consumed))
         /\ \A i, j \in 1..Len(out) : i # j => order[i] # order[j]
         /\ \A i \in 1..Len(out) :
              /\ out[i] = merged[order[i]]
              /\ Range(out[i]["sources"].v) =
                   {Str(consumed[j][1]) : j \in Contributors(consumed, order[i])}

\* C2 witness: two records whose lemma text differs (" a", "a") but whose keys
\* are equal were read and one record was written; its root_norm no longer
\* spells the key it is kept under
C2_Witness ==
  /\ IsMerge /\ pc = "done" /\ Len(consumed) = 2 /\ Len(out) = 1
  /\ consumed[1][2]["lemma"] # consumed[2][2]["lemma"]
  /\ "root" \in DOMAIN out[1] /\ out[1]["root"].v # order[1][2]

\* C3: while merge_sources reads records, a first-wins scalar field of an
\* accumulated record changes only from empty or absent to the non-empty
\* value the record just read carries for it, and only in the record of that
\* record's key; a field that is non-empty is never changed by a later record.
C3_FirstWins ==
  [][ (IsMerge /\ pc = "reading" /\ pc' = "reading") =>
        \A k \in DOMAIN merged' : \A f \in PickKeysOf(variant) :
          LET old == IF k \in DOMAIN merged THEN Get(merged[k], f) ELSE None
              new == Get(merged'[k], f)
          IN new # old =>
               /\ ~Truthy(old)
               /\ new = Get(rec', f)
               /\ new \notin {None, Str(<<>>), Lst(<<>>)}
               /\ k = ContractKey(rec') ]_vars

\* C3 witness: the record of a key holds translit "t"; a later record of the
\* same key that carries translit "u" was read and "t" is still there
C3_Witness ==
  /\ IsMerge /\ pc = "reading" /\ Len(consumed) = 2
  /\ Get(consumed[1][2], "translit") = Str(<<"t">>)
  /\ Get(rec, "translit") = Str(<<"u">>)
  /\ ContractKey(rec) = ContractKey(consumed[1][2])
  /\ merged[ContractKey(rec)]["translit"] = Str(<<"t">>)

C5_PosFirstSeenOnce ==
  IsMerge =>
    \A i \in 1..Len(out) :
      LET expected == FirstSeen(PosOfKey(consumed, order[i]))
      IN IF expected = <<>> THEN Get(out[i], "pos") \in {None, Lst(<<>>)}
         ELSE Get(out[i], "pos") = Lst(expected)

\* C6: every record written by merge_sources has sources strictly increasing
\* (sorted, no duplicate), made of exactly the tags of the sources that held a
\* record of its key, and n_sources is the length of that list.
C6_SourcesSortedTagsOfKey ==
  IsMerge =>
    \A i \in 1..Len(out) :
      LET l == out[i]["sources"].v
      IN /\ \A a \in 1..(Len(l) - 1) : StrLess(l[a].v, l[a + 1].v)
         /\ Range(l) = {Str(consumed[j][1]) : j \in Contributors(consumed, order[i])}
         /\ out[i]["n_sources"] = Num(Len(l))

\* C6 witness: a key was met first in the quranic source and then in the
\* hf-roots source, whose tag sorts first; its record is written
C6_Witness ==
  /\ variant = "classical" /\ pc = "done" /\ Len(out) = 1 /\ Len(consumed) = 2
  /\ consumed[1][1] = TAG_quran /\ consumed[2][1] = TAG_hf_roots
  /\ Contributors(consumed, order[1]) = {1, 2}

\* C7 (as claimed): a malformed line never aborts merge_sources.
C7_MalformedNeverAborts == pc # "raised"

\* C8 (as claimed): a run over the same records in another order (sources
\* permuted, records permuted within a source) writes the same records.
C8_OrderIndependent ==
  (IsMerge /\ pc = "done") =>
    \A p \in Reorderings(consumed) : OutputOf(variant, keep_missing_root, p) = out

\* C8 (amended): a run over the same records in another order writes records
\* for the same keys, in the same order, with the same lemma, source,
\* source_ref, sources, source_refs and n_sources.
C8_OrderIndependentFields ==
  (IsMerge /\ pc = "done") =>
    \A p \in Reorderings(consumed) \ {consumed} :
      LET o == OutputOf(variant, keep_missing_root, p)
      IN /\ Len(o) = Len(out)
         /\ \A i \in 1..Len(out) :
              LET w == o[i]
              IN \A f \in {"lemma", "source", "source_ref", "sources", "source_refs", "n_sources"} :
                   w[f] = out[i][f]

\* C8 witness: a finished run of which some reordering writes another output
C8_Witness ==
  /\ IsMerge /\ pc = "done" /\ Len(out) >= 1
  /\ \E p \in Reorderings(consumed) : OutputOf(variant, keep_missing_root, p) # out

\* the keys whose records come from two sources with different lemma_status
TwoSourcesDiffer(k) ==
  \E a, b \in Contributors(consumed, k) :
    /\ consumed[a][1] # consumed[b][1]
    /\ StatusOf(consumed[a][2]) # StatusOf(consumed[b][2])

\* C9 (as claimed): for a key on which two sources hold different
\* lemma_status values, the classical merge writes the same lemma_status
\* whatever the order of the sources.
C9_StatusCommutes ==
  (variant = "classical" /\ pc = "done") =>
    \A i \in 1..Len(out) :
      TwoSourcesDiffer(order[i]) =>
        \A p \in SourceReorderings(consumed) \ {consumed} :
          LET o == OutputOf(variant, keep_missing_root, p)
          IN o[i]["lemma_status"] = out[i]["lemma_status"]

\* C9 (amended): the same, for a key on which at least one record carries a
\* recognised tier (gold, silver, auto, auto_brut); values that tie at rank 0
\* (unrecognised or absent) resolve to the first seen.
C9_StatusCommutesRanked ==
  (variant = "classical" /\ pc = "done") =>
    \A i \in 1..Len(out) :
      (/\ TwoSourcesDiffer(order[i])
       /\ \E j \in Contributors(consumed, order[i]) : Tier(StatusOf(consumed[j][2])) >= 1) =>
        \A p \in SourceReorderings(consumed) \ {consumed} :
          LET o == OutputOf(variant, keep_missing_root, p)
          IN o[i]["lemma_status"] = out[i]["lemma_status"]

\* C9 witness: two sources hold the key, one with auto_brut and then one with
\* gold, and the record is written
C9_Witness ==
  /\ variant = "classical" /\ pc = "done" /\ Len(out) = 1 /\ Len(consumed) = 2
  /\ TwoSourcesDiffer(order[1])
  /\ StatusOf(consumed[1][2]) = T_auto_brut /\ StatusOf(consumed[2][2]) = T_gold

\* C10 (as claimed): when a record meets an existing record of its key, in the
\* classical merge (_best_status) and in the binary-root build (best_status),
\* the status kept is the strict four-tier resolution of the current and the
\* incoming status.
C10_StrictFourTier ==
  (variant \in {"classical", "binary"} /\ pc = "reading" /\ consumed # <<>>) =>
    LET prev == FoldAll(variant, keep_missing_root, <<>>,
                        SubSeq(consumed, 1, Len(consumed) - 1))
    IN \A k \in DOMAIN prev :
         merged[k] # prev[k] =>
           merged[k]["lemma_status"].v = StrictBest(prev[k]["lemma_status"].v, StatusOf(rec))

\* C11: in merge_sources a record whose lemma is empty after trimming (absent,
\* empty or blank) is discarded before keying: reading it leaves the
\* accumulator as it was (no record created, none modified), and no record
\* written has an empty lemma.
C11_EmptyLemmaDiscarded ==
  [][ IsMerge =>
        /\ (consumed' # consumed /\ ContractKey(rec')[1] = <<>>) => merged' = merged
        /\ \A i \in 1..Len(out') : out'[i]["lemma"].v # <<>> ]_vars

\* C11 witness: a record with a blank lemma was read after a record of a key,
\* and the run wrote that key's record only
C11_Witness ==
  /\ IsMerge /\ pc = "done" /\ Len(consumed) = 2 /\ Len(out) = 1
  /\ ContractKey(consumed[1][2])[1] # <<>>
  /\ consumed[2][2]["lemma"] = Str(<<" ">>)

\* C12: in merge_sources a record is finished (sources sorted, n_sources set,
\* ensure_min_schema applied) and written only after every source has been
\* read to its end; the records are written one at a time, each for a key not
\* written before, as the accumulator holds it after finishing; once the write
\* loop has begun no record is read, and a written record and its accumulator
\* entry never change again.
C12_FinalizedOnceAtEnd ==
  [][ IsMerge =>
        /\ pc' \in {"next_source", "reading"} =>
              /\ out' = <<>>
              /\ \A k \in DOMAIN merged' : "n_sources" \notin DOMAIN merged'[k]
        /\ out' # out =>
              /\ pc = "writing" /\ si > Len(sources)
              /\ out' = Append(out, merged'[order[Len(out) + 1]])
              /\ order[Len(out) + 1] \notin {order[i] : i \in 1..Len(out)}
              /\ "n_sources" \notin DOMAIN merged[order[Len(out) + 1]]
              /\ "n_sources" \in DOMAIN merged'[order[Len(out) + 1]]
        /\ pc \in {"writing", "done"} =>
              /\ consumed' = consumed /\ order' = order
              /\ DOMAIN merged' = DOMAIN merged
              /\ \A i \in 1..Len(out) : out'[i] = out[i] /\ merged'[order[i]] = merged[order[i]]
              /\ \A k \in DOMAIN merged :
                   merged'[k] # merged[k] => k = order[Len(out) + 1]
        /\ pc' = "done" => Range(order) = DOMAIN merged /\ Len(out) = Len(order) ]_vars

\* C12 witness: two keys were read from the sources and both records are written
C12_Witness ==
  /\ IsMerge /\ pc = "done" /\ Len(consumed) = 2 /\ Len(out) = 2
  /\ out[1] # out[2]

\* C13: for an offset width of 32 or 64 bits and a list of entries (word,
\* offset, length) encoded as word, NUL, big-endian offset on width/8 bytes,
\* big-endian length on 4 bytes, iter_idx over the concatenated buffer yields
\* exactly those triples in their order: what convert_package has received so
\* far is a prefix of the list, and all of it when the scan has ended.
C13_IndexRoundTrip ==
  (cpc \in {"scan", "done"} /\ offset_bits \in {32, 64} /\ offset_bits = pkg.bits
     /\ pkg.tail = <<>>) =>
    /\ iter_idx(pkg.idx, offset_bits) = pkg.index
    /\ Len(yielded) <= Len(pkg.index)
    /\ yielded = SubSeq(pkg.index, 1, Len(yielded))
    /\ (cpc = "done" /\ pkg.limit = 0) => yielded = pkg.index

\* C13 witness: an index of two entries with 64-bit offsets, one of them 2^32,
\* was scanned to its end
C13_Witness ==
  /\ cpc = "done" /\ offset_bits = 64 /\ pkg.bits = 64 /\ pkg.tail = <<>> /\ pkg.limit = 0
  /\ Len(pkg.index) = 2 /\ yielded = pkg.index
  /\ yielded[1][1] # yielded[2][1]
  /\ yielded[2][2] = <<1, 0, 0, 0, 0>>

\* C14 (as claimed): an index of complete records followed by a fragment
\* shorter than a record yields what the index without the fragment yields.
C14_TruncatedTailIgnored ==
  (cpc = "done" /\ pkg.limit = 0 /\ offset_bits = pkg.bits) =>
    yielded = iter_idx(EncodeIndex(pkg.index, pkg.bits), offset_bits)

\* C15 (as claimed): convert_package writes no record for an entry whose byte
\* range exceeds the payload, and writes the records of the other entries in
\* index order.
C15_OversizeEntrySkipped ==
  (cpc = "done" /\ pkg.limit = 0) =>
    LET kept == Fitting(yielded, Len(pkg.dict))
    IN wrote = [i \in 1..Len(kept) |->
                  ConvertedEntry(pkg.dict, kept[i][1], kept[i][2], kept[i][3], L_la, L_la)]

\* C16 (as claimed): offsets are read on 4 bytes when the metadata has no
\* idxoffsetbits or has 32, on 8 bytes when it has 64; with any other value
\* the conversion fails and yields and writes nothing.
C16_OffsetWidthValidated ==
  cpc \in {"scan", "done", "raised"} =>
    LET meta == read_ifo(pkg.ifo)
    IN IF T_idxoffsetbits \notin DOMAIN meta \/ OffsetBitsText(meta) = <<"3", "2">>
       THEN cpc # "raised" /\ OffsetBytes(offset_bits) = 4
       ELSE IF OffsetBitsText(meta) = <<"6", "4">>
       THEN cpc # "raised" /\ OffsetBytes(offset_bits) = 8
       ELSE cpc = "raised" /\ yielded = <<>> /\ wrote = <<>>

\* C17: iter_idx is a finite single pass over any buffer: every record it
\* yields begins where the scan stood, inside the buffer, and moves the read
\* position forward, so the records begin at strictly increasing positions
\* and none is yielded twice; the scan ends without a record only at the end
\* of the buffer or at a word with no NUL after it; and the scan ends.
C17_ScanTerminates ==
  /\ [][ cpc = "scan" =>
           /\ yielded' # yielded =>
                /\ pos < Len(pkg.idx) /\ pos' > pos
                /\ starts' = Append(starts, pos)
                /\ Len(yielded') = Len(yielded) + 1
           /\ (cpc' = "done" /\ yielded' = yielded) =>
                \/ pos >= Len(pkg.idx)
                \/ \A i \in (pos + 1)..Len(pkg.idx) : pkg.idx[i] # 0
           /\ \A i, j \in 1..Len(starts') : i < j => starts'[i] < starts'[j] ]_vars
  /\ (cpc = "scan") ~> (cpc = "done")

\* C17 witness: a buffer of two records and a word without NUL was scanned
\* to the end with a width that is not the one it was written with
C17_Witness ==
  /\ cpc = "done" /\ pkg.limit = 0 /\ offset_bits # pkg.bits
  /\ Len(pkg.index) = 2 /\ pkg.tail = <<97>>
  /\ Len(yielded) >= 2 /\ pos < Len(pkg.idx)

\* C18 (as claimed): ensure_min_schema is idempotent: called on its own
\* result with the same defaults it returns that result, field for field.
C18_Idempotent ==
  ncalls >= 2 => nres = ensure_min_schema(nrec, ndflt)

\* C19: after ensure_min_schema each of lemma, language, source and
\* lemma_status is present and is a text without leading or trailing blanks;
\* for a field the input record does not have it is the caller's default for
\* that field, and the empty text when there is no default.
C19_RequiredTrimmedOrDefault ==
  ncalls >= 1 =>
    \A f \in {"lemma", "language", "source", "lemma_status"} :
      /\ f \in DOMAIN nres
      /\ IsStr(nres[f])
      /\ Strip(nres[f].v) = nres[f].v
      /\ f \notin DOMAIN nrec =>
           nres[f] = IF f \in DOMAIN ndflt /\ ndflt[f] # None THEN ndflt[f] ELSE Str(<<>>)

\* C19 witness: a record with a padded lemma and source and without language
\* and lemma_status was normalised with defaults
C19_Witness ==
  /\ ncalls = 1 /\ ndflt = Defaults("classical")
  /\ Get(nrec, "lemma") = Str(<<" ", "a", " ">>) /\ Get(nrec, "source") = Str(<<" ", "w">>)
  /\ "language" \notin DOMAIN nrec /\ "lemma_status" \notin DOMAIN nrec
  /\ nres["language"] = Str(L_ara) /\ nres["source"] = Str(<<"w">>)

\* C20 (as claimed): a record with neither ipa nor ipa_raw gets neither from
\* ensure_min_schema; a record with one of them gets both, ipa_raw being the
\* one that is present.
C20_NoIpaFieldAdded ==
  ncalls = 1 =>
    IF "ipa" \notin DOMAIN nrec /\ "ipa_raw" \notin DOMAIN nrec
    THEN "ipa" \notin DOMAIN nres /\ "ipa_raw" \notin DOMAIN nres
    ELSE /\ "ipa" \in DOMAIN nres /\ "ipa_raw" \in DOMAIN nres
         /\ nres["ipa_raw"] = IF "ipa_raw" \in DOMAIN nrec THEN nrec["ipa_raw"]
                               ELSE Str(PyStr(Or(nrec["ipa"], Str(<<>>))))

\* C20 (amended): a record with neither ipa nor ipa_raw gets both, as the
\* empty text; a record with one of them gets both, ipa_raw being the one
\* that is present (its own value when it has the key, the text of ipa
\* otherwise).
C20_IpaFieldsAlwaysPresent ==
  ncalls = 1 =>
    IF "ipa" \notin DOMAIN nrec /\ "ipa_raw" \notin DOMAIN nrec
    THEN Get(nres, "ipa") = Str(<<>>) /\ Get(nres, "ipa_raw") = Str(<<>>)
    ELSE /\ "ipa" \in DOMAIN nres /\ "ipa_raw" \in DOMAIN nres
         /\ nres["ipa_raw"] = IF "ipa_raw" \in DOMAIN nrec THEN nrec["ipa_raw"]
                               ELSE Str(PyStr(Or(nrec["ipa"], Str(<<>>))))

\* C20 witness: a record with neither ipa nor ipa_raw was normalised
C20_Witness ==
  /\ ncalls = 1 /\ "ipa" \notin DOMAIN nrec /\ "ipa_raw" \notin DOMAIN nrec
  /\ "lemma" \in DOMAIN nrec /\ "ipa" \in DOMAIN nres

(***************************************************************************)
(* processed_schema.py: the fields of a normalized record                  *)
(***************************************************************************)

\* the record has a translit key, an ipa key and a non-empty id, and
\* iter_missing_required reports none of the three
HasIdTranslitIpa(r) ==
  /\ "translit" \in DOMAIN r
  /\ "ipa" \in DOMAIN r
  /\ Truthy(Get(r, "id"))
  /\ Range(iter_missing_required(r)) \cap {"id", "translit", "ipa"} = {}

\* C21: every record returned by ensure_min_schema, and so every row the
\* merge scripts write, has a translit key, an ipa key and a non-empty id;
\* iter_missing_required never reports id, translit or ipa for it.
C21_IdTranslitIpaPresent ==
  /\ ncalls >= 1 => HasIdTranslitIpa(nres)
  /\ \A i \in 1..Len(out) : HasIdTranslitIpa(out[i])

\* C21 witness: a record that came without id, translit and ipa (or with a
\* blank id) has been normalized.
C21_Witness ==
  /\ ncalls = 1
  /\ ~Truthy(Get(nrec, "id"))
  /\ "translit" \notin DOMAIN nrec
  /\ "ipa" \notin DOMAIN nrec
  /\ "id" \in DOMAIN nrec

\* a is b with some of its elements left out (the order is kept)
RECURSIVE IsSubseq(_, _)
IsSubseq(a, b) ==
  IF a = <<>> THEN TRUE
  ELSE IF b = <<>> THEN FALSE
  ELSE IF Head(a) = Head(b) THEN IsSubseq(Tail(a), Tail(b))
  ELSE IsSubseq(a, Tail(b))

\* the elements supplied under pos, as text, in the supplied order: the
\* items of a list, the trimmed text or the printed value of a scalar,
\* nothing for null
SuppliedPos(p) ==
  CASE p.t = "list" -> [i \in 1..Len(p.v) |-> Str(PyStr(p.v[i]))]
    [] p.t = "none" -> <<>>
    [] p.t = "str" -> <<Str(Strip(p.v))>>
    [] OTHER -> <<Str(PyStr(p))>>

\* a list of non-empty text
IsTextList(x) ==
  /\ IsList(x)
  /\ \A i \in 1..Len(x.v) : IsStr(x.v[i]) /\ x.v[i].v # <<>>

\* C23: when the input record has a pos key, ensure_min_schema leaves pos as
\* a list of non-empty strings whatever the supplied shape (scalar, list,
\* null), the retained elements in the supplied order; a record without
\* pos gets none, so pos is a list whenever an output record has it.
C23_PosIsOrderedTextList ==
  ncalls >= 1 =>
    /\ "pos" \in DOMAIN nrec =>
          /\ "pos" \in DOMAIN nres
          /\ IsTextList(nres["pos"])
          /\ IsSubseq(nres["pos"].v, SuppliedPos(nrec["pos"]))
    /\ "pos" \in DOMAIN nres => IsList(nres["pos"])

\* C23 witness: a list with text, zero, null and a number has been coerced.
C23_Witness ==
  /\ ncalls = 1
  /\ "pos" \in DOMAIN nrec
  /\ nrec["pos"] = Lst(<<Str(<<"V">>), Num(0), Str(<<" ">>), None, Str(<<"N">>), Num(2)>>)
  /\ nres["pos"] = Lst(<<Str(<<"V">>), Str(<<" ">>), Str(<<"N">>), Str(<<"2">>)>>)

\* the tuple the id is computed from: language, source, source_ref, lemma,
\* orthography, root, ipa or ipa_raw, translit
IdTuple(r) ==
  << Get(r, "language"), Get(r, "source"), Get(r, "source_ref"), Get(r, "lemma"),
     Get(r, "orthography"), Get(r, "root"), Or(Get(r, "ipa"), Get(r, "ipa_raw")),
     Get(r, "translit") >>

\* the fields of the model that are not in the tuple
NonIdFields == {"lemma_status", "gloss_html", "pos"}

\* the record without the field k
DropField(r, k) == [f \in DOMAIN r \ {k} |-> r[f]]

\* C24: an id already present (non-empty) is kept unchanged; otherwise the
\* id is stable_id of the tuple (language, source, source_ref, lemma,
\* orthography, root, ipa or ipa_raw, translit) of the normalized record, so
\* a record equal on that tuple and different in another field gets the
\* same id, and a later call keeps the id of the first.
C24_IdFromOwnTuple ==
  ncalls >= 1 =>
    LET first == ensure_min_schema(nrec, ndflt)
    IN /\ Truthy(Get(nrec, "id")) => nres["id"] = nrec["id"]
       /\ ~Truthy(Get(nrec, "id")) =>
             /\ first["id"] = Str(stable_id(IdTuple(first)))
             /\ nres["id"] = first["id"]
             /\ \A k \in NonIdFields :
                  LET other == ensure_min_schema(DropField(nrec, k), ndflt)
                  IN IdTuple(other) = IdTuple(first) => other["id"] = first["id"]

\* C24 witness: a record without id that has a lemma_status, a gloss and a
\* pos has been normalized twice, and one with an id has been normalized.
C24_Witness ==
  /\ ncalls = 2
  /\ "id" \notin DOMAIN nrec
  /\ NonIdFields \subseteq DOMAIN nrec
  /\ nres["id"] = Str(stable_id(IdTuple(ensure_min_schema(nrec, ndflt))))

(***************************************************************************)
(* processed_schema.py: normalize_ipa on wrapped and bare text             *)
(***************************************************************************)

\* the longest IPA text compared
MaxIpaLen == 3

\* the characters of the IPA text: a letter, a blank, the wrapper characters
\* and two of the stress marks
IpaChars == {"a", " ", "/", "[", "]", "U+02C8", "'"}

IpaTexts == UNION { [1..n -> IpaChars] : n \in 0..MaxIpaLen }

\* "/" + s + "/"  and  "[" + s + "]"
Slashed(s) == <<"/">> \o s \o <<"/">>
Bracketed(s) == <<"[">> \o s \o <<"]">>

\* the test of validate_processed.is_wrapped_ipa
is_wrapped_ipa(value) ==
  LET v == Strip(value)
  IN Len(v) >= 2 /\ ((v[1] = "/" /\ v[Len(v)] = "/") \/ (v[1] = "[" /\ v[Len(v)] = "]"))

IpaInit ==
  /\ MergeIdle /\ ConvertIdle /\ NormalizeIdle /\ AdapterIdle /\ EnglishIdle /\ RunnerIdle
  /\ ipa_in \in IpaTexts
  /\ ipa_out = <<>>

\* normalize_ipa(s), normalize_ipa("/" + s + "/"), normalize_ipa("[" + s + "]")
NormalizeIpa ==
  /\ ipa_out = <<>>
  /\ ipa_out' = << normalize_ipa(ipa_in), normalize_ipa(Slashed(ipa_in)),
                   normalize_ipa(Bracketed(ipa_in)) >>
  /\ UNCHANGED ipa_in
  /\ UNCHANGED <<mvars, cvars, nvars, avars, evars, rvars>>

IpaNext == NormalizeIpa

IpaSpec == IpaInit /\ [][IpaNext]_vars

\* the text has no whitespace and no stress mark
NoBlankNoStress(t) == \A i \in 1..Len(t) : t[i] \notin WhiteSpace \cup IPA_STRESS_MARKS

\* C22: for every IPA text s, normalize_ipa gives the same
\* result for s in slashes, s in square brackets and bare s, and the result
\* has no whitespace and no stress mark.
C22_WrapperEquivalence ==
  ipa_out # <<>> =>
    /\ ipa_out[1] = ipa_out[2] /\ ipa_out[2] = ipa_out[3]
    /\ \A k \in 1..3 : NoBlankNoStress(ipa_out[k])

(***************************************************************************)
(* src/ingest/utils.py, src/ingest/adapters/quran_lemmas.py,               *)
(* src/ingest/adapters/wiktionary_filtered.py                              *)
(***************************************************************************)

\* unicodedata.normalize("NFKC", s).  No character of Alphabet has a
\* compatibility decomposition, so on the text of the model NFKC leaves
\* every character in place.
NFKC(s) == s

\* str.lower(): the capital letters of the model
Lower(s) ==
  [i \in 1..Len(s) |-> CASE s[i] = "N" -> "n" [] s[i] = "V" -> "v" [] OTHER -> s[i]]

\* utils.normalize_lemma
normalize_lemma(text) ==
  LET t == NFKC(IF Truthy(text) THEN PyStr(text) ELSE <<>>)
  IN Lower(Strip(CollapseWs(t)))

\* [str(x) for x in pos_val if str(x).strip()]
RECURSIVE NonBlankStrs(_)
NonBlankStrs(l) ==
  IF l = <<>> THEN <<>>
  ELSE IF Strip(PyStr(Head(l))) # <<>> THEN <<Str(PyStr(Head(l)))>> \o NonBlankStrs(Tail(l))
  ELSE NonBlankStrs(Tail(l))

\* utils.ensure_pos_list
ensure_pos_list(pos_val) ==
  CASE pos_val.t = "none" -> Lst(<<>>)
    [] pos_val.t = "list" -> Lst(NonBlankStrs(pos_val.v))
    [] pos_val.t = "str" ->
         IF Strip(pos_val.v) = <<>> THEN Lst(<<>>) ELSE Lst(<<Str(Strip(pos_val.v))>>)
    [] OTHER -> Lst(<<Str(PyStr(pos_val))>>)

\* (x or "").strip()
StripOrEmpty(x) == IF Truthy(x) THEN Strip(PyStr(x)) ELSE <<>>

\* utils.make_stable_id
make_stable_id(language, stage, source, lemma, pos_list, disambiguator) ==
  LET parts == << StripOrEmpty(language), StripOrEmpty(stage), StripOrEmpty(source),
                  normalize_lemma(lemma),
                  Join(<<"+">>, [i \in 1..Len(pos_list.v) |-> pos_list.v[i].v]) >>
  IN Join(<<":">>, IF disambiguator > 0
                   THEN Append(parts, DecimalText(disambiguator))
                   ELSE parts)

\* the literals of the two adapters: language, stage, script, source
AdapterDefaults(a) ==
  IF a = "quran"
  THEN [language |-> Str(L_ara_qur), stage |-> Str(<<"q", "u", "r", "a", "n", "i", "c">>),
        script |-> Str(<<"A", "r", "a", "b">>), source |-> Str(<<"q", "u", "r", "a", "n", "i", "c", "-", "c", "o", "r", "p", "u", "s", "-", "m", "o", "r", "p", "h", "o", "l", "o", "g", "y">>)]
  ELSE [language |-> Str(<<"u", "n", "d">>), stage |-> Str(<<"u", "n", "k", "n", "o", "w", "n">>),
        script |-> Str(<<"L", "a", "t", "n">>), source |-> Str(<<"w", "i", "k", "t", "i", "o", "n", "a", "r", "y", "-", "s", "t", "a", "r", "d", "i", "c", "t">>)]

\* rec.get(k) or the adapter's literal
FieldOrDefault(a, r, k) == Or(Get(r, k), AdapterDefaults(a)[k])

\* the candidate id of the record r with the disambiguator d (lines 45 / 43)
Candidate(a, r, d) ==
  make_stable_id(FieldOrDefault(a, r, "language"), FieldOrDefault(a, r, "stage"),
                 FieldOrDefault(a, r, "source"),
                 IF "lemma" \in DOMAIN r THEN r["lemma"] ELSE Str(<<>>),
                 ensure_pos_list(Get(r, "pos")), d)

\* the record as written with the id cur_id (lines 54-62 / 52-60)
AdapterRecord(a, r, cur_id) ==
  LET r1 == Put(r, "id", Str(cur_id))
      r2 == Put(r1, "language", FieldOrDefault(a, r, "language"))
      r3 == Put(r2, "stage", FieldOrDefault(a, r, "stage"))
      r4 == Put(r3, "script", FieldOrDefault(a, r, "script"))
      r5 == Put(r4, "source", FieldOrDefault(a, r, "source"))
      r6 == Put(r5, "lemma_status", Or(Get(r, "lemma_status"), Str(T_attested)))
  IN Put(r6, "pos", ensure_pos_list(Get(r, "pos")))

\* seen.get(k, 0)
SeenCount(k) == IF k \in DOMAIN seen_ids THEN seen_ids[k] ELSE 0

\* the longest input file of an adapter, in lines
MaxLines == 3

\* a line that is empty once stripped
BlankLine == [t |-> "blank", v |-> <<>>]

\* the lines of an input file: blank, or a record with or without an id (a
\* free one, or one that an id-less record of the file would be given) whose
\* lemma is one of two homographs
AdapterLines(a) ==
  {BlankLine} \cup
  { Field("lemma", lemma) @@ Field("id", id) :
      lemma \in {Str(<<"n">>), Str(<<"N", " ">>)},
      id \in {Absent, Str(<<>>), Str(<<"k">>),
              Str(Candidate(a, Field("lemma", Str(<<"n">>)), 0))} }

AdapterInit ==
  /\ MergeIdle /\ ConvertIdle /\ NormalizeIdle /\ IpaIdle /\ EnglishIdle /\ RunnerIdle
  /\ adapter = "none" /\ inp = <<>> /\ inp_i = 1 /\ arec = <<>> /\ dis = 0
  /\ seen_ids = <<>> /\ awrote = <<>> /\ apc = "start"

\* run(): the input file exists and is opened; seen = {}
OpenInput ==
  /\ apc = "start"
  /\ \E a \in {"quran", "wiktionary"} :
       /\ adapter' = a
       /\ \E n \in 0..MaxLines : inp' \in [1..n -> AdapterLines(a)]
  /\ apc' = "read"
  /\ UNCHANGED <<inp_i, arec, dis, seen_ids, awrote>>
  /\ UNCHANGED <<mvars, cvars, nvars, ivars, evars, rvars>>

\* run(): the input file is missing, FileNotFoundError
InputMissing ==
  /\ apc = "start"
  /\ \E a \in {"quran", "wiktionary"} : adapter' = a
  /\ apc' = "raised"
  /\ UNCHANGED <<inp, inp_i, arec, dis, seen_ids, awrote>>
  /\ UNCHANGED <<mvars, cvars, nvars, ivars, evars, rvars>>

\* if not line: continue
SkipBlankLine ==
  /\ apc = "read" /\ inp_i <= Len(inp)
  /\ inp[inp_i] = BlankLine
  /\ inp_i' = inp_i + 1
  /\ UNCHANGED <<adapter, inp, arec, dis, seen_ids, awrote, apc>>
  /\ UNCHANGED <<mvars, cvars, nvars, ivars, evars, rvars>>

\* the record has an id: it is counted in seen and the record is written
TakeGivenId ==
  /\ apc = "read" /\ inp_i <= Len(inp)
  /\ inp[inp_i] # BlankLine
  /\ Truthy(Get(inp[inp_i], "id"))
  /\ LET cur_id == PyStr(inp[inp_i]["id"])
     IN /\ seen_ids' = Put(seen_ids, cur_id, SeenCount(cur_id) + 1)
        /\ awrote' = Append(awrote, AdapterRecord(adapter, inp[inp_i], cur_id))
  /\ inp_i' = inp_i + 1
  /\ UNCHANGED <<adapter, inp, arec, dis, apc>>
  /\ UNCHANGED <<mvars, cvars, nvars, ivars, evars, rvars>>

\* the record has no id: the search starts at base_disambig = seen.get("", 0)
\* (quran_lemmas line 43) or dis = 0 (wiktionary_filtered line 41)
BeginSearch ==
  /\ apc = "read" /\ inp_i <= Len(inp)
  /\ inp[inp_i] # BlankLine
  /\ ~Truthy(Get(inp[inp_i], "id"))
  /\ arec' = inp[inp_i]
  /\ dis' = IF adapter = "quran" THEN SeenCount(<<>>) ELSE 0
  /\ apc' = "search"
  /\ UNCHANGED <<adapter, inp, inp_i, seen_ids, awrote>>
  /\ UNCHANGED <<mvars, cvars, nvars, ivars, evars, rvars>>

\* one turn of "while True": the candidate is in seen
NextCandidate ==
  /\ apc = "search"
  /\ Candidate(adapter, arec, dis) \in DOMAIN seen_ids
  /\ dis' = dis + 1
  /\ UNCHANGED <<adapter, inp, inp_i, arec, seen_ids, awrote, apc>>
  /\ UNCHANGED <<mvars, cvars, nvars, ivars, evars, rvars>>

\* one turn of "while True": the candidate is new; it is issued and the
\* record is written
IssueCandidate ==
  /\ apc = "search"
  /\ LET candidate == Candidate(adapter, arec, dis)
     IN /\ candidate \notin DOMAIN seen_ids
        /\ seen_ids' = Put(seen_ids, candidate, 1)
        /\ awrote' = Append(awrote, AdapterRecord(adapter, arec, candidate))
  /\ inp_i' = inp_i + 1
  /\ apc' = "read"
  /\ UNCHANGED <<adapter, inp, arec, dis>>
  /\ UNCHANGED <<mvars, cvars, nvars, ivars, evars, rvars>>

\* the input is exhausted: write_manifest and return
AdapterReturn ==
  /\ apc = "read" /\ inp_i > Len(inp)
  /\ apc' = "done"
  /\ UNCHANGED <<adapter, inp, inp_i, arec, dis, seen_ids, awrote>>
  /\ UNCHANGED <<mvars, cvars, nvars, ivars, evars, rvars>>

AdapterNext ==
  \/ OpenInput \/ InputMissing \/ SkipBlankLine \/ TakeGivenId \/ BeginSearch
  \/ NextCandidate \/ IssueCandidate \/ AdapterReturn

AdapterSpec == AdapterInit /\ [][AdapterNext]_vars

\* C25: in one run of an adapter the ids of the records written are pairwise
\* distinct, for every input (records with or without an id of their own,
\* homographs included), and a record without id is given the candidate of
\* the smallest disambiguator 0, 1, 2, ... that is not yet in seen.
C25_IdsPairwiseDistinct ==
  /\ \A i, j \in 1..Len(awrote) : i # j => awrote[i]["id"] # awrote[j]["id"]
  /\ apc = "search" =>
       \A d \in 0..(dis - 1) : Candidate(adapter, arec, d) \in DOMAIN seen_ids

(***************************************************************************)
(* scripts/ingest/merge_english_ipa_sources.py                             *)
(***************************************************************************)

L_eng == <<"e", "n", "g">>
S_cmudict == <<"c", "m", "u", "d", "i", "c", "t">>

\* ensure_min_schema(rec, default_language="eng", default_lemma_status="auto_brut")
EnglishDefaults ==
  [language |-> Str(L_eng), source |-> None, lemma_status |-> Str(T_auto_brut)]

\* upsert lines 45-49: the key of the record, <<>> when the record is dropped
UpsertKey(r) ==
  LET lemma == Strip(PyStr(Or(Get(r, "lemma"), Str(<<>>))))
      ipa_val == normalize_ipa(PyStr(Or(Get(r, "ipa"), Or(Get(r, "ipa_raw"), Str(<<>>)))))
  IN IF lemma = <<>> \/ ipa_val = <<>> THEN <<>> ELSE <<Lower(lemma), ipa_val>>

\* upsert lines 51-56: the record as prepared for the dict
Prepared(r, priority) ==
  LET r1 == Put(r, "lemma", Str(Strip(PyStr(Or(Get(r, "lemma"), Str(<<>>))))))
      r2 == Put(r1, "ipa_raw",
                IF "ipa_raw" \in DOMAIN r1 THEN r1["ipa_raw"]
                ELSE IF "ipa" \in DOMAIN r1 THEN r1["ipa"] ELSE Str(<<>>))
      r3 == Put(r2, "ipa", Str(UpsertKey(r)[2]))
      r4 == Put(r3, "pos", coerce_pos_list(Get(r3, "pos")))
      r5 == Put(r4, "source_priority", Num(priority))
  IN ensure_min_schema(r5, EnglishDefaults)

\* set(coerce_pos_list(r.get("pos"))), as a set of texts
PosSet(r) ==
  LET l == coerce_pos_list(Get(r, "pos")).v IN {l[i].v : i \in 1..Len(l)}

\* sorted(S), as a JSON list of texts
SortedList(S) ==
  LET sorted == SortedStrs(S) IN Lst([i \in 1..Len(sorted) |-> Str(sorted[i])])

\* int(cur.get("source_priority", 999))
PriorityOf(r) == IF "source_priority" \in DOMAIN r THEN r["source_priority"].v ELSE 999

\* mutant: the pos of a later record of the key is not added
upsert_NoUnion(m, r, priority) ==
  IF UpsertKey(r) = <<>> THEN m
  ELSE LET key == UpsertKey(r)
           new == Prepared(r, priority)
       IN IF key \notin DOMAIN m THEN Put(m, key, new)
          ELSE IF PriorityOf(m[key]) <= priority THEN m
          ELSE Put(m, key, Put(new, "pos", Or(Get(m[key], "pos"), Lst(<<>>))))

\* upsert(rec, priority): the dict merged after the call
upsert(m, r, priority) ==
  IF UpsertKey(r) = <<>> THEN m
  ELSE LET key == UpsertKey(r)
           new == Prepared(r, priority)
       IN IF key \notin DOMAIN m THEN Put(m, key, new)
          ELSE LET cur == IF PosSet(new) # {}
                          THEN Put(m[key], "pos", SortedList(PosSet(m[key]) \cup PosSet(new)))
                          ELSE m[key]
               IN IF PriorityOf(cur) <= priority THEN Put(m, key, cur)
                  ELSE Put(m, key, Put(new, "pos", IF "pos" \in DOMAIN cur
                                                    THEN cur["pos"] ELSE Lst(<<>>)))

\* rec.setdefault("source", "cmudict"); rec.setdefault("variant", "cmudict")
CmudictRecord(r) ==
  SetDefault(SetDefault(r, "source", Str(S_cmudict)), "variant", Str(S_cmudict))

\* the calls of upsert the two loops make, in order: <<record, priority>>
Upserts(d, c) ==
  [i \in 1..Len(d) |-> <<d[i], 1>>] \o [i \in 1..Len(c) |-> <<CmudictRecord(c[i]), 2>>]

\* sorted(merged.items(), key=lambda kv: (kv[0][0], kv[0][1]))
IpaKeyLess(a, b) == StrLess(a[1], b[1]) \/ (a[1] = b[1] /\ StrLess(a[2], b[2]))

RECURSIVE SortedIpaKeys(_)
SortedIpaKeys(S) ==
  IF S = {} THEN <<>>
  ELSE LET k == CHOOSE x \in S : \A y \in S : y = x \/ IpaKeyLess(x, y)
       IN <<k>> \o SortedIpaKeys(S \ {k})

\* the most records the two input files hold together
MaxRows == 3

\* the records of the input files: two spellings of one lemma with the same
\* normalized ipa (wrapped, bare, or given as ipa_raw) and different pos, a
\* second pronunciation, a blank lemma and an ipa that normalizes to nothing
EnglishRecords ==
  { Field("lemma", Str(<<"n">>)) @@ Field("ipa", Str(<<"/", "a", "/">>))
      @@ Field("pos", Str(<<"N">>)),
    Field("lemma", Str(<<"N", " ">>)) @@ Field("ipa", Str(<<"a">>))
      @@ Field("pos", Lst(<<Str(<<"V">>)>>)),
    Field("lemma", Str(<<"n">>)) @@ Field("ipa_raw", Str(<<"[", "a", "]">>))
      @@ Field("pos", Lst(<<Str(<<"V">>), Str(<<"N">>), Str(<<"V">>)>>)),
    Field("lemma", Str(<<"n">>)) @@ Field("ipa", Str(<<"b">>)),
    Field("lemma", Str(<<" ">>)) @@ Field("ipa", Str(<<"a">>)),
    Field("lemma", Str(<<"n">>)) @@ Field("ipa", Str(<<"/", "/">>)) }

EnglishInit ==
  /\ MergeIdle /\ ConvertIdle /\ NormalizeIdle /\ IpaIdle /\ AdapterIdle /\ RunnerIdle
  /\ ipa_dict = <<>> /\ cmudict = <<>> /\ erow = 0 /\ merged_ipa = <<>>
  /\ eout = <<>> /\ epc = "start"

\* merge(ipa_dict_path, cmudict_path, out_path): merged = {}
BeginMerge ==
  /\ epc = "start"
  /\ \E n \in 0..MaxRows, k \in 0..MaxRows :
       /\ n + k <= MaxRows
       /\ ipa_dict' \in [1..n -> EnglishRecords]
       /\ cmudict' \in [1..k -> EnglishRecords]
  /\ epc' = "upsert"
  /\ UNCHANGED <<erow, merged_ipa, eout>>
  /\ UNCHANGED <<mvars, cvars, nvars, ivars, avars, rvars>>

\* one turn of the loops at lines 75-81
Upsert ==
  /\ epc = "upsert"
  /\ erow < Len(ipa_dict) + Len(cmudict)
  /\ LET u == Upserts(ipa_dict, cmudict)[erow + 1]
     IN merged_ipa' = upsert(merged_ipa, u[1], u[2])
  /\ erow' = erow + 1
  /\ UNCHANGED <<ipa_dict, cmudict, eout, epc>>
  /\ UNCHANGED <<mvars, cvars, nvars, ivars, avars, rvars>>

\* lines 83-88: the records are written in the order of their keys
WriteMerged ==
  /\ epc = "upsert"
  /\ erow = Len(ipa_dict) + Len(cmudict)
  /\ LET keys == SortedIpaKeys(DOMAIN merged_ipa)
     IN eout' = [i \in 1..Len(keys) |-> merged_ipa[keys[i]]]
  /\ epc' = "done"
  /\ UNCHANGED <<ipa_dict, cmudict, erow, merged_ipa>>
  /\ UNCHANGED <<mvars, cvars, nvars, ivars, avars, rvars>>

EnglishNext == BeginMerge \/ Upsert \/ WriteMerged

EnglishSpec == EnglishInit /\ [][EnglishNext]_vars

\* the calls of upsert whose record has the key k, in call order
CallsOfKey(k) ==
  SelectSeq(Upserts(ipa_dict, cmudict), LAMBDA u : UpsertKey(u[1]) = k)

\* the keys of the records that are not dropped
KeptKeys ==
  {UpsertKey(Upserts(ipa_dict, cmudict)[i][1]) : i \in 1..(Len(ipa_dict) + Len(cmudict))}
    \ {<<>>}

\* the first call among those of the lowest source_priority number
FirstOfLowest(calls) ==
  LET low == CHOOSE p \in {calls[i][2] : i \in 1..Len(calls)} :
               \A i \in 1..Len(calls) : p <= calls[i][2]
  IN calls[CHOOSE i \in 1..Len(calls) :
             calls[i][2] = low /\ \A j \in 1..(i - 1) : calls[j][2] # low]

\* C26: merge writes exactly one record per key (lowercased lemma,
\* normalized ipa); records with empty lemma or empty normalized ipa are
\* dropped; the fields other than pos are those of the first-upserted record
\* among the ones of the lowest source_priority number for the key; pos, as
\* a set, is the union of the pos of all the records of the key.
C26_OneRecordPerKey ==
  epc = "done" =>
    LET keys == SortedIpaKeys(KeptKeys)
    IN /\ Len(eout) = Cardinality(KeptKeys)
       /\ \A i \in 1..Len(keys) :
            LET calls == CallsOfKey(keys[i])
                first == FirstOfLowest(calls)
            IN /\ DropField(eout[i], "pos")
                    = DropField(Prepared(first[1], first[2]), "pos")
               /\ PosSet(eout[i])
                    = UNION {PosSet(calls[j][1]) : j \in 1..Len(calls)}

\* C26 witness: both files had a record of one key with different pos, a
\* dropped record came in between, and one record was written for the key.
C26_Witness ==
  /\ epc = "done"
  /\ Len(ipa_dict) = 2 /\ Len(cmudict) = 1
  /\ UpsertKey(ipa_dict[1]) = <<<<"n">>, <<"a">>>>
  /\ UpsertKey(ipa_dict[2]) = <<>>
  /\ UpsertKey(cmudict[1]) = <<<<"n">>, <<"a">>>>
  /\ PosSet(ipa_dict[1]) # PosSet(cmudict[1])
  /\ Len(eout) = 1
  /\ eout[1]["source_priority"] = Num(1)

(***************************************************************************)
(* The step runners: src/linguistic_data_core/ingest/runner.py (run_ingest)*)
(* and scripts/ingest/run_ingest_all.py (main)                             *)
(***************************************************************************)

\* the most steps build_steps returns
MaxSteps == 2

StepNames == <<"s1", "s2", "s3", "s4", "s5">>

\* what a step requires, each input given by whether it exists when the loop
\* reaches the step: required_all_inputs, required_any_inputs
StepInputs ==
  { [required_all |-> <<TRUE>>, required_any |-> <<>>],
    [required_all |-> <<FALSE>>, required_any |-> <<>>],
    [required_all |-> <<>>, required_any |-> <<FALSE, TRUE>>],
    [required_all |-> <<>>, required_any |-> <<FALSE, FALSE>>],
    [required_all |-> <<TRUE, FALSE>>, required_any |-> <<FALSE, TRUE>>] }

StepTags == {{"english"}, {"arabic"}}

\* --only: nothing, a tag, or the name of a step
Requests == {{}, {"english"}, {"s2"}}

\* missing = bool(missing_all) or bool(missing_any)  (runner.py lines 243-245,
\* run_ingest_all.py lines 398-404)
Missing(step) ==
  \/ \E i \in 1..Len(step.required_all) : ~step.required_all[i]
  \/ /\ Len(step.required_any) > 0
     /\ \A i \in 1..Len(step.required_any) : ~step.required_any[i]

\* the step is selected (runner.py line 240, run_ingest_all.py line 394)
Selected(r, step) ==
  \/ requested = {}
  \/ step.tags \cap requested # {}
  \/ r = "run_ingest_all" /\ step.name \in requested

\* run_ingest_all.py line 390; run_ingest tests skip_missing_inputs itself
skip_missing == skip_missing_inputs /\ ~require_inputs

\* missing inputs are counted as a failure (runner.py line 248,
\* run_ingest_all.py lines 405-409)
MissingFails(r) ==
  IF r = "run_ingest" THEN require_inputs /\ ~skip_missing_inputs ELSE ~skip_missing

\* missing inputs are skipped over (runner.py line 254, run_ingest_all.py
\* line 405)
MissingSkips(r) ==
  IF r = "run_ingest" THEN ~MissingFails(r) /\ skip_missing_inputs ELSE skip_missing

\* mutant: a failure never ends the loop
AfterFailure_NeverBreaks(ff) == "loop"

\* if fail_fast: break
AfterFailure(ff) == IF ff THEN "break" ELSE "loop"

RunnerInit ==
  /\ MergeIdle /\ ConvertIdle /\ NormalizeIdle /\ IpaIdle /\ AdapterIdle /\ EnglishIdle
  /\ runner = "none" /\ require_inputs = FALSE /\ skip_missing_inputs = FALSE
  /\ fail_fast = FALSE /\ requested = {} /\ steps = <<>> /\ step_i = 1 /\ manifest = <<>>
  /\ any_failed = FALSE /\ executed = <<>> /\ rpc = "start" /\ exit_code = 0

\* the runner is called with its flags; steps = build_steps(...)
StartRun ==
  /\ rpc = "start"
  /\ runner' \in {"run_ingest", "run_ingest_all"}
  /\ require_inputs' \in BOOLEAN
  /\ skip_missing_inputs' \in BOOLEAN
  /\ fail_fast' \in BOOLEAN
  /\ requested' \in Requests
  /\ \E n \in 0..MaxSteps :
       \E ins \in [1..n -> StepInputs], tags \in [1..n -> StepTags] :
         steps' = [i \in 1..n |->
                     [name |-> StepNames[i], tags |-> tags[i],
                      required_all |-> ins[i].required_all,
                      required_any |-> ins[i].required_any]]
  /\ rpc' = "loop"
  /\ UNCHANGED <<step_i, manifest, any_failed, executed, exit_code>>
  /\ UNCHANGED <<mvars, cvars, nvars, ivars, avars, evars>>

\* the step is not selected: run_ingest passes over it, main records it
NotSelected ==
  /\ rpc = "loop" /\ step_i <= Len(steps)
  /\ ~Selected(runner, steps[step_i])
  /\ manifest' = IF runner = "run_ingest_all"
                 THEN Append(manifest, [name |-> steps[step_i].name, status |-> "skipped",
                                        reason |-> "not_selected"])
                 ELSE manifest
  /\ step_i' = step_i + 1
  /\ UNCHANGED <<runner, require_inputs, skip_missing_inputs, fail_fast, requested, steps,
                 any_failed, executed, rpc, exit_code>>
  /\ UNCHANGED <<mvars, cvars, nvars, ivars, avars, evars>>

\* inputs are missing and that is a failure
MissingInputsFail ==
  /\ rpc = "loop" /\ step_i <= Len(steps)
  /\ Selected(runner, steps[step_i])
  /\ Missing(steps[step_i])
  /\ MissingFails(runner)
  /\ manifest' = Append(manifest,
                        IF runner = "run_ingest"
                        THEN [name |-> steps[step_i].name, status |-> "skipped_missing_inputs"]
                        ELSE [name |-> steps[step_i].name, status |-> "failed",
                              reason |-> "missing_inputs"])
  /\ any_failed' = TRUE
  /\ rpc' = AfterFailure(fail_fast)
  /\ step_i' = step_i + 1
  /\ UNCHANGED <<runner, require_inputs, skip_missing_inputs, fail_fast, requested, steps,
                 executed, exit_code>>
  /\ UNCHANGED <<mvars, cvars, nvars, ivars, avars, evars>>

\* inputs are missing and the step is skipped
MissingInputsSkip ==
  /\ rpc = "loop" /\ step_i <= Len(steps)
  /\ Selected(runner, steps[step_i])
  /\ Missing(steps[step_i])
  /\ ~MissingFails(runner)
  /\ MissingSkips(runner)
  /\ manifest' = Append(manifest,
                        IF runner = "run_ingest"
                        THEN [name |-> steps[step_i].name, status |-> "skipped_missing_inputs"]
                        ELSE [name |-> steps[step_i].name, status |-> "skipped",
                              reason |-> "missing_inputs"])
  /\ step_i' = step_i + 1
  /\ UNCHANGED <<runner, require_inputs, skip_missing_inputs, fail_fast, requested, steps,
                 any_failed, executed, rpc, exit_code>>
  /\ UNCHANGED <<mvars, cvars, nvars, ivars, avars, evars>>

\* subprocess.run(step.cmd): reached when no input is missing, and in
\* run_ingest also when inputs are missing and neither branch of lines
\* 248-257 is taken
RunStep ==
  /\ rpc = "loop" /\ step_i <= Len(steps)
  /\ Selected(runner, steps[step_i])
  /\ Missing(steps[step_i]) => ~MissingFails(runner) /\ ~MissingSkips(runner)
  /\ \E returncode \in {0, 1} :
       /\ manifest' = Append(manifest,
                             [name |-> steps[step_i].name,
                              status |-> IF returncode = 0 THEN "ok" ELSE "failed",
                              returncode |-> returncode])
       /\ any_failed' = (any_failed \/ returncode # 0)
       /\ rpc' = IF returncode # 0 THEN AfterFailure(fail_fast) ELSE "loop"
  /\ executed' = Append(executed, step_i)
  /\ step_i' = step_i + 1
  /\ UNCHANGED <<runner, require_inputs, skip_missing_inputs, fail_fast, requested, steps,
                 exit_code>>
  /\ UNCHANGED <<mvars, cvars, nvars, ivars, avars, evars>>

\* after the loop: the manifest is written; return / SystemExit(2 if any_failed else 0)
Exit ==
  /\ \/ rpc = "loop" /\ step_i > Len(steps)
     \/ rpc = "break"
  /\ exit_code' = IF any_failed THEN 2 ELSE 0
  /\ rpc' = "exited"
  /\ UNCHANGED <<runner, require_inputs, skip_missing_inputs, fail_fast, requested, steps,
                 step_i, manifest, any_failed, executed>>
  /\ UNCHANGED <<mvars, cvars, nvars, ivars, avars, evars>>

RunnerNext ==
  \/ StartRun \/ NotSelected \/ MissingInputsFail \/ MissingInputsSkip \/ RunStep \/ Exit

RunnerSpec == RunnerInit /\ [][RunnerNext]_vars

\* some selected step has missing required inputs
SomeSelectedStepMissing ==
  \E i \in 1..Len(steps) : Selected(runner, steps[i]) /\ Missing(steps[i])

\* C27: in both step runners, when require-inputs is set and a selected step
\* has missing required inputs, the run ends with exit code 2, also when
\* skip-missing-inputs is set as well.
C27_RequireInputsFails ==
  (rpc = "exited" /\ require_inputs /\ SomeSelectedStepMissing) => exit_code = 2

\* the manifest entry records a failed step: a non-zero return code, or
\* missing inputs that the runner counts as a failure (run_ingest records
\* those as "skipped_missing_inputs" while setting any_failed)
FailedEntry(e) ==
  \/ e.status = "failed"
  \/ e.status = "skipped_missing_inputs" /\ MissingFails(runner)

\* the position in steps of the step an entry names
StepIndex(e) == CHOOSE i \in 1..Len(StepNames) : StepNames[i] = e.name

\* the names of the steps the loop has considered (entries other than
\* "not selected"), and of the selected steps, in order
NamesOf(q) == [i \in 1..Len(q) |-> q[i].name]
ConsideredNames ==
  NamesOf(SelectSeq(manifest,
                    LAMBDA e : ~("reason" \in DOMAIN e /\ e.reason = "not_selected")))
SelectedNames == NamesOf(SelectSeq(steps, LAMBDA st : Selected(runner, st)))

\* C28: with fail-fast both runners stop at the first failed step (non-zero
\* return code, or missing inputs counted as a failure): nothing is recorded
\* and no step is executed after it, and the exit code is 2; without
\* fail-fast every selected step is considered once, in declared order, and
\* the exit code is 2 exactly when some step failed.
C28_FailFastStopsAtFirstFailure ==
  /\ fail_fast =>
       \A k \in 1..Len(manifest) :
         FailedEntry(manifest[k]) =>
           /\ k = Len(manifest)
           /\ \A j \in 1..Len(executed) : executed[j] <= StepIndex(manifest[k])
           /\ rpc \in {"break", "exited"}
  /\ rpc = "exited" =>
       /\ exit_code = 2 <=> \E k \in 1..Len(manifest) : FailedEntry(manifest[k])
       /\ exit_code \in {0, 2}
       /\ ~fail_fast => ConsideredNames = SelectedNames

\* C28 witness: with fail-fast the first of two selected steps failed, the
\* second, whose inputs are there, was not run, and the run ended with 2.
C28_Witness ==
  /\ rpc = "exited" /\ fail_fast
  /\ Len(steps) = 2
  /\ Selected(runner, steps[2]) /\ ~Missing(steps[2])
  /\ Len(manifest) = 1 /\ FailedEntry(manifest[1])
  /\ Len(executed) <= 1
  /\ exit_code = 2

\* C29: in both step runners a selected step whose required inputs are
\* missing is never executed, whatever the flags: it is only recorded as
\* skipped or failed.
C29_MissingInputsNeverExecuted ==
  \A k \in 1..Len(executed) : ~Missing(steps[executed[k]])

(***************************************************************************)
(* scripts/ingest/validate_processed.py: the ipa_wrapped check             *)
(***************************************************************************)

\* validate_jsonl lines 72-74: the row gets the error "ipa_wrapped"
ipa_wrapped(r) == IsStr(Get(r, "ipa")) /\ is_wrapped_ipa(r["ipa"].v)

\* C30: the ipa of a record returned by ensure_min_schema is never a wrapped
\* form (length >= 2, in slashes or in square brackets), so the ipa_wrapped
\* check of validate_jsonl never fires on a normalized record.
C30_IpaNeverWrapped == ncalls >= 1 => ~ipa_wrapped(nres)

====
